---- MODULE Spec2Model ----
(***************************************************************************)
(* Model of the on-policy trajectory pipeline of rl-basics: the rollout    *)
(* buffer, the backward advantage recurrence (GAE) and the PPO / A2C       *)
(* update loops of                                                         *)
(*   src/src/online/ppo/flax_ppo_atari.py   (variant "ppo_flax")           *)
(*   src/src/online/a2c/flax_a2c_atari.py   (variant "a2c_flax")           *)
(*   src/rl_gym/ppo_continuous.py           (variant "ppo_torch")          *)
(*                                                                         *)
(* Real numbers are exact rationals <<numerator, denominator>> in lowest   *)
(* terms with a positive denominator; the floating-point rounding of the   *)
(* numerical libraries is not modelled.                                    *)
(***************************************************************************)
EXTENDS Integers, Sequences, FiniteSets, TLC

(***************************************************************************)
(* Bounds of the model.                                                    *)
(***************************************************************************)
\* the estimator's inputs: every table of every shape with
\* num_steps * num_envs <= MaxCells, and for one lane the longer horizons
\* up to LongSteps with any rewards and done events and a critic whose
\* value is one constant
MaxCells == 2
LongSteps == 4

(***************************************************************************)
(* Exact rational arithmetic.                                              *)
(***************************************************************************)
Abs(x) == IF x < 0 THEN -x ELSE x

RECURSIVE Gcd(_, _)
Gcd(a, b) == IF b = 0 THEN a ELSE Gcd(b, a % b)

\* the rational n/d (d # 0) in lowest terms, denominator positive
Rat(n, d) ==
    LET g == Gcd(Abs(n), Abs(d))
        s == IF d < 0 THEN -1 ELSE 1
    IN  <<(s * n) \div g, (s * d) \div g>>

R(x) == <<x, 1>>
\* sums over the least common denominator
Lcm(a, b) == (a \div Gcd(a, b)) * b
RAdd(a, b) ==
    LET l == Lcm(a[2], b[2])
    IN  Rat(a[1] * (l \div a[2]) + b[1] * (l \div b[2]), l)
RNeg(a) == <<-a[1], a[2]>>
RSub(a, b) == RAdd(a, RNeg(b))
RMul(a, b) == Rat(a[1] * b[1], a[2] * b[2])
RLess(a, b) == a[1] * b[2] < b[1] * a[2]

Zero == R(0)
One == R(1)
Half == Rat(1, 2)

(***************************************************************************)
(* Inputs of the estimator.                                                *)
(***************************************************************************)
Variants == {"ppo_flax", "a2c_flax", "ppo_torch"}
FlaxVariants == {"ppo_flax", "a2c_flax"}

\* the discounts gamma and the trace decays lambda (--gamma, --gae)
GammaVals == {Half, One}
GaeVals == {Zero, Half, One}
\* rewards, critic values and done events of one cell
RewardVals == {0, 1}
ValueVals == {0, 1}
DoneVals == {0, 1}

Steps(T) == 0 .. (T - 1)
Lanes(N) == 0 .. (N - 1)
Table(T, N, S) == [Steps(T) -> [Lanes(N) -> S]]

\* np.zeros((num_steps, num_envs)) / torch.zeros / jnp.zeros
ZeroTable(T, N) == [t \in Steps(T) |-> [n \in Lanes(N) |-> Zero]]
ZeroVec(N) == [n \in Lanes(N) |-> Zero]

\* an integer table as a table of reals
AsReal(tbl) == [t \in DOMAIN tbl |-> [n \in DOMAIN tbl[t] |-> R(tbl[t][n])]]
VecAsReal(vec) == [n \in DOMAIN vec |-> R(vec[n])]

(***************************************************************************)
(* The backward advantage recurrence, one definition per variant.  The     *)
(* loop state is [advantages, adv, last_value]; the loop runs i from       *)
(* num_steps - 1 down to 0, every statement on the whole lane vector.      *)
(***************************************************************************)
LoopState(advantages, adv, last_value) ==
    [advantages |-> advantages, adv |-> adv, last_value |-> last_value]

\* the body without `last_value = values[i]`
compute_advantages_body_stale_value(i, st, rewards, values, flags, gamma, gae) ==
    LET returns == [n \in DOMAIN st.adv |->
                      RAdd(rewards[i][n],
                           RMul(RMul(gamma, flags[i][n]), st.last_value[n]))]
        delta == [n \in DOMAIN st.adv |-> RSub(returns[n], values[i][n])]
        adv == [n \in DOMAIN st.adv |->
                  RAdd(delta[n],
                       RMul(RMul(RMul(gamma, gae), flags[i][n]), st.adv[n]))]
    IN  LoopState([st.advantages EXCEPT ![i] = adv], adv, st.last_value)

\* the body with the trace decayed by gae alone, gamma left out
compute_advantages_body_undiscounted_trace(i, st, rewards, values, flags, gamma, gae) ==
    LET returns == [n \in DOMAIN st.adv |->
                      RAdd(rewards[i][n],
                           RMul(RMul(gamma, flags[i][n]), st.last_value[n]))]
        delta == [n \in DOMAIN st.adv |-> RSub(returns[n], values[i][n])]
        adv == [n \in DOMAIN st.adv |->
                  RAdd(delta[n], RMul(RMul(gae, flags[i][n]), st.adv[n]))]
    IN  LoopState([st.advantages EXCEPT ![i] = adv], adv, values[i])

\* flax PPO: one pass of the body of `for i in reversed(range(num_steps))`
compute_advantages_body(i, st, rewards, values, flags, gamma, gae) ==
    LET returns == [n \in DOMAIN st.adv |->
                      RAdd(rewards[i][n],
                           RMul(RMul(gamma, flags[i][n]), st.last_value[n]))]
        delta == [n \in DOMAIN st.adv |-> RSub(returns[n], values[i][n])]
        adv == [n \in DOMAIN st.adv |->
                  RAdd(delta[n],
                       RMul(RMul(RMul(gamma, gae), flags[i][n]), st.adv[n]))]
    IN  LoopState([st.advantages EXCEPT ![i] = adv], adv, values[i])

RECURSIVE compute_advantages_loop(_, _, _, _, _, _, _)
compute_advantages_loop(i, st, rewards, values, flags, gamma, gae) ==
    IF i < 0 THEN st
    ELSE compute_advantages_loop(
             i - 1,
             compute_advantages_body(i, st, rewards, values, flags, gamma, gae),
             rewards, values, flags, gamma, gae)

compute_advantages(rewards, values, flags, last_value, gamma, gae, num_steps, num_envs) ==
    compute_advantages_loop(
        num_steps - 1,
        LoopState(ZeroTable(num_steps, num_envs), ZeroVec(num_envs), last_value),
        rewards, values, flags, gamma, gae).advantages

\* the body with the trace carried across episode ends (flags[i] left out)
a2c_compute_advantages_body_unmasked_trace(i, st, rewards, values, flags, gamma, gae) ==
    LET returns == [n \in DOMAIN st.adv |->
                      RAdd(rewards[i][n],
                           RMul(RMul(gamma, flags[i][n]), st.last_value[n]))]
        delta == [n \in DOMAIN st.adv |-> RSub(returns[n], values[i][n])]
        adv == [n \in DOMAIN st.adv |->
                  RAdd(delta[n], RMul(RMul(gamma, gae), st.adv[n]))]
    IN  LoopState([st.advantages EXCEPT ![i] = adv], adv, values[i])

\* flax A2C: the same function, defined again in its own script
a2c_compute_advantages_body(i, st, rewards, values, flags, gamma, gae) ==
    LET returns == [n \in DOMAIN st.adv |->
                      RAdd(rewards[i][n],
                           RMul(RMul(gamma, flags[i][n]), st.last_value[n]))]
        delta == [n \in DOMAIN st.adv |-> RSub(returns[n], values[i][n])]
        adv == [n \in DOMAIN st.adv |->
                  RAdd(delta[n],
                       RMul(RMul(RMul(gamma, gae), flags[i][n]), st.adv[n]))]
    IN  LoopState([st.advantages EXCEPT ![i] = adv], adv, values[i])

RECURSIVE a2c_compute_advantages_loop(_, _, _, _, _, _, _)
a2c_compute_advantages_loop(i, st, rewards, values, flags, gamma, gae) ==
    IF i < 0 THEN st
    ELSE a2c_compute_advantages_loop(
             i - 1,
             a2c_compute_advantages_body(i, st, rewards, values, flags, gamma, gae),
             rewards, values, flags, gamma, gae)

a2c_compute_advantages(rewards, values, flags, last_value, gamma, gae, num_steps, num_envs) ==
    a2c_compute_advantages_loop(
        num_steps - 1,
        LoopState(ZeroTable(num_steps, num_envs), ZeroVec(num_envs), last_value),
        rewards, values, flags, gamma, gae).advantages

\* the body consuming the stored done flag as if it were a continuation flag
main_advantages_body_flag_as_mask(i, st, rewards, state_values, flags, gamma, gae) ==
    LET terminal == [n \in DOMAIN st.adv |-> flags[i][n]]
        returns == [n \in DOMAIN st.adv |->
                      RAdd(rewards[i][n],
                           RMul(RMul(gamma, st.last_value[n]), terminal[n]))]
        delta == [n \in DOMAIN st.adv |-> RSub(returns[n], state_values[i][n])]
        adv == [n \in DOMAIN st.adv |->
                  RAdd(RMul(RMul(RMul(gamma, gae), st.adv[n]), terminal[n]),
                       delta[n])]
    IN  LoopState([st.advantages EXCEPT ![i] = adv], adv, state_values[i])

\* ppo_continuous: the loop written inline in main(); flags holds `done`
\* and the loop consumes terminal = 1 - flags[i]
main_advantages_body(i, st, rewards, state_values, flags, gamma, gae) ==
    LET terminal == [n \in DOMAIN st.adv |-> RSub(One, flags[i][n])]
        returns == [n \in DOMAIN st.adv |->
                      RAdd(rewards[i][n],
                           RMul(RMul(gamma, st.last_value[n]), terminal[n]))]
        delta == [n \in DOMAIN st.adv |-> RSub(returns[n], state_values[i][n])]
        adv == [n \in DOMAIN st.adv |->
                  RAdd(RMul(RMul(RMul(gamma, gae), st.adv[n]), terminal[n]),
                       delta[n])]
    IN  LoopState([st.advantages EXCEPT ![i] = adv], adv, state_values[i])

RECURSIVE main_advantages_loop(_, _, _, _, _, _, _)
main_advantages_loop(i, st, rewards, state_values, flags, gamma, gae) ==
    IF i < 0 THEN st
    ELSE main_advantages_loop(
             i - 1,
             main_advantages_body(i, st, rewards, state_values, flags, gamma, gae),
             rewards, state_values, flags, gamma, gae)

\* rewards.size(0) = num_steps, rewards.size(1) = num_envs
main_advantages(rewards, state_values, flags, next_state_value, gamma, gae) ==
    LET T == Cardinality(DOMAIN rewards)
        N == Cardinality(DOMAIN next_state_value)
    IN  main_advantages_loop(
            T - 1,
            LoopState(ZeroTable(T, N), ZeroVec(N), next_state_value),
            rewards, state_values, flags, gamma, gae).advantages

\* every variant storing the pre-negated continuation flag
StoredFlag_always_continuation(variant, done) == 1 - done

\* the flag a variant stores for a step whose lane reports `done`
\* (done = terminated or truncated)
StoredFlag(variant, done) ==
    IF variant \in FlaxVariants THEN 1 - done ELSE done

\* td_target without the value baseline added back
TdTarget_advantages_only(advantages, values) ==
    [t \in DOMAIN advantages |->
        [n \in DOMAIN advantages[t] |-> advantages[t][n]]]

\* td_target = advantages + values, elementwise
TdTarget(advantages, values) ==
    [t \in DOMAIN advantages |->
        [n \in DOMAIN advantages[t] |-> RAdd(advantages[t][n], values[t][n])]]

\* the advantage table of a variant from its stored tables
Estimate(variant, rewards, values, flags, last_value, gamma, gae, T, N) ==
    CASE variant = "ppo_flax" ->
            compute_advantages(rewards, values, flags, last_value, gamma, gae, T, N)
      [] variant = "a2c_flax" ->
            a2c_compute_advantages(rewards, values, flags, last_value, gamma, gae, T, N)
      [] variant = "ppo_torch" ->
            main_advantages(rewards, values, flags, last_value, gamma, gae)


(***************************************************************************)
(* Advantage normalization:                                                *)
(*   advantages = (advantages - advantages.mean()) / (advantages.std()+eps)*)
(* over the whole table.  A normalized entry is kept exact as the record   *)
(* [centered, variance, eps], standing for                                 *)
(*   centered / (sqrt(variance) + eps).                                    *)
(* jnp's std() is the population deviation (divisor B); torch's std() is   *)
(* the sample deviation (divisor B - 1), which is NaN for a single entry.  *)
(***************************************************************************)
RECURSIVE SumUpTo(_, _)
\* xs[0] + ... + xs[k - 1] of a 0-based vector of reals
SumUpTo(xs, k) == IF k = 0 THEN Zero ELSE RAdd(SumUpTo(xs, k - 1), xs[k - 1])

\* x.reshape(-1) of a [T][N] table: entry t * N + n is x[t][n]
Flat(tbl) ==
    LET T == Cardinality(DOMAIN tbl)
        N == IF T = 0 THEN 0 ELSE Cardinality(DOMAIN tbl[0])
    IN  [j \in 0 .. (T * N - 1) |-> tbl[j \div N][j % N]]

TableMean(tbl) ==
    LET xs == Flat(tbl)
        B == Cardinality(DOMAIN xs)
    IN  RMul(SumUpTo(xs, B), Rat(1, B))

\* the squared deviation std()^2; ddof = 0 for jnp, 1 for torch
TableVariance(tbl, ddof) ==
    LET xs == Flat(tbl)
        B == Cardinality(DOMAIN xs)
        m == TableMean(tbl)
        sq == [j \in DOMAIN xs |-> RMul(RSub(xs[j], m), RSub(xs[j], m))]
    IN  IF B - ddof = 0 THEN "nan" ELSE RMul(SumUpTo(sq, B), Rat(1, B - ddof))

Ddof(variant) == IF variant = "ppo_torch" THEN 1 ELSE 0
Eps(variant) == IF variant = "ppo_torch" THEN "1e-7" ELSE "1e-8"

\* the division without the subtraction of the mean
Normalize_uncentered(variant, advantages) ==
    LET var == TableVariance(advantages, Ddof(variant))
    IN  [t \in DOMAIN advantages |->
            [n \in DOMAIN advantages[t] |->
                [centered |-> advantages[t][n],
                 variance |-> var,
                 eps |-> Eps(variant)]]]

Normalize(variant, advantages) ==
    LET m == TableMean(advantages)
        var == TableVariance(advantages, Ddof(variant))
    IN  [t \in DOMAIN advantages |->
            [n \in DOMAIN advantages[t] |->
                [centered |-> RSub(advantages[t][n], m),
                 variance |-> var,
                 eps |-> Eps(variant)]]]

(***************************************************************************)
(* SpecGAE: the estimation phase as a function of its inputs.  Init draws  *)
(* a horizon, a lane count, the per-step rewards, critic values and done   *)
(* events, the bootstrap value, gamma and lambda.  EstimateAdvantages      *)
(* stores the flags the way the chosen variant does, runs that variant's   *)
(* backward loop and forms td_target; NormalizeAdvantages is the           *)
(* statement that follows it.                                              *)
(***************************************************************************)
VARIABLES
    g_num_steps,    \* args.num_steps
    g_num_envs,     \* args.num_envs
    g_rewards,      \* rewards[t][n] of the rollout
    g_values,       \* critic values recorded at predict time
    g_dones,        \* terminated or truncated, per step and lane
    g_last_value,   \* critic value of the observation after the last step
    g_gamma,        \* args.gamma
    g_gae,          \* args.gae
    g_variant,      \* the script that ran, "none" before it has
    g_pc,           \* "collected", "estimated", "normalized"
    g_flags,        \* the flag table as the variant stored it
    g_advantages,   \* the name `advantages`
    g_raw,          \* history: the table the backward loop returned
    g_td_target     \* the name `td_target`

gvars == <<g_num_steps, g_num_envs, g_rewards, g_values, g_dones, g_last_value,
           g_gamma, g_gae, g_variant, g_pc, g_flags, g_advantages, g_raw,
           g_td_target>>

GaeShapes ==
    {sh \in (1 .. MaxCells) \X (1 .. MaxCells) : sh[1] * sh[2] <= MaxCells}

GaeInitTables ==
    \/ \E sh \in GaeShapes :
        /\ g_num_steps = sh[1]
        /\ g_num_envs = sh[2]
        /\ g_rewards \in Table(sh[1], sh[2], RewardVals)
        /\ g_values \in Table(sh[1], sh[2], ValueVals)
        /\ g_last_value \in [Lanes(sh[2]) -> ValueVals]
    \/ \E T \in (MaxCells + 1) .. LongSteps, c \in ValueVals :
        /\ g_num_steps = T
        /\ g_num_envs = 1
        /\ g_rewards \in Table(T, 1, RewardVals)
        /\ g_values = [t \in Steps(T) |-> [n \in Lanes(1) |-> c]]
        /\ g_last_value = [n \in Lanes(1) |-> c]

GaeInit ==
    /\ GaeInitTables
    /\ g_dones \in Table(g_num_steps, g_num_envs, DoneVals)
    /\ g_gamma \in GammaVals
    /\ g_gae \in GaeVals
    /\ g_variant = "none"
    /\ g_pc = "collected"
    /\ g_flags = ZeroTable(g_num_steps, g_num_envs)
    /\ g_advantages = ZeroTable(g_num_steps, g_num_envs)
    /\ g_raw = ZeroTable(g_num_steps, g_num_envs)
    /\ g_td_target = ZeroTable(g_num_steps, g_num_envs)

EstimateAdvantages(v) ==
    /\ g_pc = "collected"
    /\ g_pc' = "estimated"
    /\ g_variant' = v
    /\ g_flags' = [t \in Steps(g_num_steps) |->
                     [n \in Lanes(g_num_envs) |-> R(StoredFlag(v, g_dones[t][n]))]]
    /\ g_advantages' = Estimate(v, AsReal(g_rewards), AsReal(g_values), g_flags',
                                VecAsReal(g_last_value), g_gamma, g_gae,
                                g_num_steps, g_num_envs)
    /\ g_raw' = g_advantages'
    /\ g_td_target' = TdTarget(g_advantages', AsReal(g_values))
    /\ UNCHANGED <<g_num_steps, g_num_envs, g_rewards, g_values, g_dones,
                   g_last_value, g_gamma, g_gae>>

NormalizeAdvantages ==
    /\ g_pc = "estimated"
    /\ g_pc' = "normalized"
    /\ g_advantages' = Normalize(g_variant, g_advantages)
    /\ UNCHANGED <<g_num_steps, g_num_envs, g_rewards, g_values, g_dones,
                   g_last_value, g_gamma, g_gae, g_variant, g_flags, g_raw,
                   g_td_target>>


(***************************************************************************)
(* Properties of the estimation phase (checked under SpecGAE).             *)
(***************************************************************************)
\* continuation mask of a cell: 0 exactly where the lane's episode ended
Continuation(t, n) == R(1 - g_dones[t][n])

\* the value after step t of lane n: values[t + 1], the bootstrap after the last
ValueAfter(t, n) ==
    IF t = g_num_steps - 1 THEN R(g_last_value[n]) ELSE R(g_values[t + 1][n])

\* one-step TD error of a cell
TdError(t, n) ==
    RSub(RAdd(R(g_rewards[t][n]),
              RMul(RMul(g_gamma, ValueAfter(t, n)), Continuation(t, n))),
         R(g_values[t][n]))

RECURSIVE SpecAdvantage(_, _)
\* the recurrence of the specification, lane n alone, from T - 1 down to t
SpecAdvantage(t, n) ==
    IF t = g_num_steps THEN Zero
    ELSE RAdd(TdError(t, n),
              RMul(RMul(RMul(g_gamma, g_gae), Continuation(t, n)),
                   SpecAdvantage(t + 1, n)))

Estimated == g_pc \in {"estimated", "normalized"}

\* C1: the advantage table of every variant's backward loop equals the
\* recurrence of the specification, each lane computed from its own rewards,
\* values, continuation flags and bootstrap value only.
C1_AdvantagesFollowRecurrence ==
    g_pc = "estimated" =>
        \A t \in Steps(g_num_steps), n \in Lanes(g_num_envs) :
            g_advantages[t][n] = SpecAdvantage(t, n)

C1_Witness ==
    /\ g_pc = "estimated"
    /\ g_variant = "ppo_torch"
    /\ g_num_steps = 3
    /\ g_gamma = Half /\ g_gae = Half
    /\ g_dones[1][0] = 1 /\ g_dones[2][0] = 0
    /\ g_last_value[0] = 1
    /\ g_advantages[0][0] # g_advantages[2][0]
    /\ g_advantages[2][0] # Zero

\* C2: after estimation td_target[t][n] is the un-normalized advantage plus
\* the value estimate of the cell, and normalizing the advantages leaves it so.
C2_TdTargetIsAdvantagePlusValue ==
    Estimated =>
        \A t \in Steps(g_num_steps), n \in Lanes(g_num_envs) :
            g_td_target[t][n] = RAdd(g_raw[t][n], R(g_values[t][n]))

C2_Witness ==
    /\ g_pc = "normalized"
    /\ g_num_steps = 2
    /\ g_values[0][0] = 1
    /\ g_td_target[0][0] # g_td_target[1][0]
    /\ g_advantages[0][0].centered # g_raw[0][0]

\* the flag table a variant stores for the collected per-step done events
FlagsOf(v) ==
    [t \in Steps(g_num_steps) |->
        [n \in Lanes(g_num_envs) |-> R(StoredFlag(v, g_dones[t][n]))]]

\* the factor a variant's loop multiplies the bootstrap term and the running
\* advantage by, from the flag it stored
MaskUsed(v, flag) == IF v \in FlaxVariants THEN flag ELSE RSub(One, flag)

\* C17: from the same rewards, values, bootstrap value and done events the
\* three loops produce the same advantage table, whichever polarity the
\* variant stores; the factor each one applies at a cell is 0 exactly where
\* the lane's transition ended its episode and 1 elsewhere.
C17_FlagPolarityEquivalence ==
    g_pc = "estimated" =>
        /\ \A v \in Variants :
              Estimate(v, AsReal(g_rewards), AsReal(g_values), FlagsOf(v),
                       VecAsReal(g_last_value), g_gamma, g_gae,
                       g_num_steps, g_num_envs) = g_raw
        /\ \A t \in Steps(g_num_steps), n \in Lanes(g_num_envs) :
              MaskUsed(g_variant, g_flags[t][n]) =
                  (IF g_dones[t][n] = 1 THEN Zero ELSE One)

\* ppo_continuous on a horizon where an episode ends before the last step:
\* the stored flag is 1 at the episode end and 0 elsewhere
C17_Witness ==
    /\ g_pc = "estimated"
    /\ g_variant = "ppo_torch"
    /\ g_num_steps = 3
    /\ g_gamma = Half /\ g_gae = Half
    /\ g_dones[0][0] = 0 /\ g_dones[1][0] = 1 /\ g_dones[2][0] = 0
    /\ g_flags[1][0] = One /\ g_flags[0][0] = Zero
    /\ g_last_value[0] = 1
    /\ g_raw[0][0] # g_raw[1][0]

RECURSIVE RewardSum(_, _, _)
\* rewards[t][n] + ... + rewards[last][n]
RewardSum(t, last, n) ==
    IF t > last THEN Zero
    ELSE RAdd(R(g_rewards[t][n]), RewardSum(t + 1, last, n))

\* the last step of the episode that step t of lane n belongs to, within the
\* horizon: the first step from t on whose lane ended, else the last step
EpisodeEnd(t, n) ==
    LET ends == {k \in t .. (g_num_steps - 1) : g_dones[k][n] = 1}
    IN  IF ends = {} THEN g_num_steps - 1
        ELSE CHOOSE k \in ends : \A j \in ends : k <= j

MonteCarloCase ==
    /\ g_pc = "estimated"
    /\ g_gamma = One /\ g_gae = One
    /\ \A t \in Steps(g_num_steps), n \in Lanes(g_num_envs) : g_values[t][n] = 0
    /\ \A n \in Lanes(g_num_envs) : g_last_value[n] = 0

\* C8 as stated: with lambda = 1, gamma = 1 and zero value estimates the
\* advantage at t is the sum of all remaining rewards of the lane.
C8_Original ==
    MonteCarloCase =>
        \A t \in Steps(g_num_steps), n \in Lanes(g_num_envs) :
            g_advantages[t][n] = RewardSum(t, g_num_steps - 1, n)

\* C8 (amended): with lambda = 1, gamma = 1 and zero value estimates (the
\* bootstrap value included) the advantage at t is the sum of the rewards from
\* t to the end of the episode step t belongs to: through the first step from
\* t on whose continuation flag is 0, through T - 1 when there is none.
C8_MonteCarloWithinEpisode ==
    MonteCarloCase =>
        \A t \in Steps(g_num_steps), n \in Lanes(g_num_envs) :
            g_advantages[t][n] = RewardSum(t, EpisodeEnd(t, n), n)

C8_Witness ==
    /\ MonteCarloCase
    /\ g_num_steps = 4
    /\ g_dones[1][0] = 1 /\ g_dones[0][0] = 0 /\ g_dones[2][0] = 0
    /\ \A t \in Steps(g_num_steps) : g_rewards[t][0] = 1
    /\ g_advantages[0][0] = R(2)
    /\ g_advantages[2][0] = R(2)

\* C9: with lambda = 0 every advantage is the one-step TD error of its own
\* cell, reward[t] + gamma * value[t+1] * continuation[t] - value[t], with
\* value[T] the bootstrap value.
C9_LambdaZeroIsTdError ==
    (g_pc = "estimated" /\ g_gae = Zero) =>
        \A t \in Steps(g_num_steps), n \in Lanes(g_num_envs) :
            g_advantages[t][n] = TdError(t, n)

C9_Witness ==
    /\ g_pc = "estimated"
    /\ g_gae = Zero
    /\ g_num_steps = 3
    /\ g_gamma = Half
    /\ g_values[1][0] = 1 /\ g_dones[0][0] = 0 /\ g_rewards[0][0] = 1
    /\ g_rewards[1][0] = 1 /\ g_rewards[2][0] = 1
    /\ g_advantages[0][0] = Rat(1, 2)

\* the end-to-end scenario of the specification
Scenario ==
    /\ g_pc = "estimated"
    /\ g_num_steps = 4 /\ g_num_envs = 1
    /\ \A t \in Steps(4) : g_rewards[t][0] = 1 /\ g_values[t][0] = 0
    /\ g_gamma = Half /\ g_gae = One
    /\ g_dones = [t \in Steps(4) |-> [n \in Lanes(1) |-> IF t = 3 THEN 1 ELSE 0]]
    /\ g_last_value[0] = 0

\* C10: horizon 4, one lane, reward 1, gamma 0.5, lambda 1, continuation
\* [1,1,1,0], values 0, bootstrap 0 give the advantages 1.875, 1.75, 1.5, 1
\* at t = 0, 1, 2, 3.
C10_EndToEndScenario ==
    Scenario =>
        /\ g_advantages[3][0] = R(1)
        /\ g_advantages[2][0] = Rat(3, 2)
        /\ g_advantages[1][0] = Rat(7, 4)
        /\ g_advantages[0][0] = Rat(15, 8)

C10_Witness == Scenario /\ g_variant = "ppo_flax"

\* the numerators of the normalized table
CenteredTable ==
    [t \in Steps(g_num_steps) |->
        [n \in Lanes(g_num_envs) |-> g_advantages[t][n].centered]]

\* the estimated advantages are not all equal
NonDegenerate ==
    \E t1, t2 \in Steps(g_num_steps), n1, n2 \in Lanes(g_num_envs) :
        g_raw[t1][n1] # g_raw[t2][n2]

\* the normalized table is centered / (sqrt(variance) + eps) with one
\* variance and one eps for the whole table, the variance is positive and
\* the numerators sum to 0: the mean of the normalized table is 0
NormalizedMeanZero ==
    /\ TableMean(CenteredTable) = Zero
    /\ \A t \in Steps(g_num_steps), n \in Lanes(g_num_envs) :
          /\ g_advantages[t][n].variance = g_advantages[0][0].variance
          /\ g_advantages[t][n].eps = Eps(g_variant)
    /\ RLess(Zero, g_advantages[0][0].variance)

\* the deviation of the normalized table under divisor B - ddof is
\* sqrt(v) / (sqrt(variance) + eps) with v the variance of the numerators
\* under that divisor: it is 1 up to eps exactly when v = variance
DeviationOne(ddof) ==
    TableVariance(CenteredTable, ddof) = g_advantages[0][0].variance

\* the statistics are those of the table estimated in this iteration, and
\* td_target, formed before, is not touched by the normalization
BatchLocal ==
    /\ g_advantages = Normalize(g_variant, g_raw)
    /\ g_td_target = TdTarget(g_raw, AsReal(g_values))

\* C24 as stated: the normalized batch of every script has mean 0 and
\* standard deviation (of the batch as a population) 1 up to eps.
C24_Original ==
    (g_pc = "normalized" /\ NonDegenerate) =>
        NormalizedMeanZero /\ DeviationOne(0) /\ BatchLocal

\* C24: the advantages are normalized over the whole table of the iteration,
\* after td_target is formed; for a table whose entries are not all equal the
\* normalized table has mean 0 and, under the deviation of the script's own
\* library (divisor B for jnp, B - 1 for torch), deviation 1 up to eps.
C24_NormalizedWithOwnDeviation ==
    (g_pc = "normalized" /\ NonDegenerate) =>
        NormalizedMeanZero /\ DeviationOne(Ddof(g_variant)) /\ BatchLocal

\* a torch table of two different advantages has been normalized
C24_Witness ==
    /\ g_pc = "normalized" /\ NonDegenerate
    /\ g_variant = "ppo_torch"
    /\ g_num_steps * g_num_envs = 2
    /\ TableVariance(CenteredTable, 0) # g_advantages[0][0].variance

(***************************************************************************)
(* SpecUpdate: the arithmetic of one gradient step.  A float is a pair     *)
(* <<n, d>>: a rational when d > 0, and <<1, 0>>, <<-1, 0>>, <<0, 0>> for  *)
(* +inf, -inf and NaN, with the IEEE rules for the operations the loss     *)
(* uses.                                                                   *)
(***************************************************************************)
\* most entries of a minibatch
MaxMinibatchEntries == 2

NaN == <<0, 0>>
PosInf == <<1, 0>>
NegInf == <<-1, 0>>
IsFinite(x) == x[2] # 0
IsNaN(x) == x = NaN
Sign(x) == IF x[1] > 0 THEN 1 ELSE IF x[1] < 0 THEN -1 ELSE 0

FNeg(a) == <<-a[1], a[2]>>
FAdd(a, b) ==
    IF IsFinite(a) /\ IsFinite(b) THEN RAdd(a, b)
    ELSE IF IsNaN(a) \/ IsNaN(b) THEN NaN
    ELSE IF IsFinite(a) THEN b
    ELSE IF IsFinite(b) THEN a
    ELSE IF a = b THEN a ELSE NaN
FSub(a, b) == FAdd(a, FNeg(b))
FMul(a, b) ==
    IF IsFinite(a) /\ IsFinite(b) THEN RMul(a, b)
    ELSE IF IsNaN(a) \/ IsNaN(b) THEN NaN
    ELSE IF Sign(a) * Sign(b) = 0 THEN NaN
    ELSE <<Sign(a) * Sign(b), 0>>
\* a < b for two floats that are not NaN
FLess(a, b) ==
    IF IsFinite(a) \/ IsFinite(b) THEN a[1] * b[2] < b[1] * a[2]
    ELSE a[1] < b[1]
\* torch.min / jnp.minimum: NaN if either is NaN
FMin(a, b) ==
    IF IsNaN(a) \/ IsNaN(b) THEN NaN ELSE IF FLess(b, a) THEN b ELSE a

RECURSIVE FSum(_, _)
\* xs[0] + ... + xs[k - 1]
FSum(xs, k) == IF k = 0 THEN Zero ELSE FAdd(FSum(xs, k - 1), xs[k - 1])
\* x.mean()
FMean(xs) ==
    LET n == Cardinality(DOMAIN xs)
    IN  IF n = 0 THEN NaN ELSE FMul(FSum(xs, n), Rat(1, n))

RAbs(a) == <<Abs(a[1]), a[2]>>
\* torch.clamp(x, lo, hi) / jax.lax.clamp(lo, x, hi)
Clamp(x, lo, hi) == IF RLess(x, lo) THEN lo ELSE IF RLess(hi, x) THEN hi ELSE x

\* ((ratios - 1.).abs() > 0.2).float().mean()
clipfrac(ratios) ==
    Rat(Cardinality({j \in DOMAIN ratios :
                        RLess(Rat(1, 5), RAbs(RSub(ratios[j], One)))}),
        Cardinality(DOMAIN ratios))

\* -min(advantages * ratios, advantages * clamp(ratios, 1 - eps, 1 + eps)).mean()
policy_loss(ratios, advs, eps_clip) ==
    FNeg(FMean([j \in DOMAIN ratios |->
        FMin(FMul(advs[j], ratios[j]),
             FMul(advs[j], Clamp(ratios[j], RSub(One, eps_clip),
                                 RAdd(One, eps_clip))))]))

\* A2C: (-log_probs * advantages).mean()
actor_loss(logps, advs) ==
    FMean([j \in DOMAIN logps |-> FMul(FNeg(logps[j]), advs[j])])

\* loss = policy_loss + value_loss - entropy_bonus (the two last already scaled)
total_loss(policy, value_loss, entropy_bonus) ==
    FSub(FAdd(policy, value_loss), entropy_bonus)

VARIABLES
    u_variant,        \* which script makes the step
    u_eps_clip,       \* args.eps_clip
    u_ratios,         \* PPO: exp(new_log_probs - old_log_probs) of the minibatch
    u_log_probs,      \* A2C: log_probs of the batch
    u_advantages,     \* the advantages of the minibatch
    u_value_loss,     \* the scaled value loss
    u_entropy_bonus,  \* the scaled entropy term
    u_pc,             \* "ready", then "updated"
    u_loss,           \* the loss of the step
    u_clipfracs,      \* ppo_continuous: the list clipfracs
    u_params,         \* optimizer steps applied
    u_agent           \* the parameters, the optimizer's set and their versions

uvars == <<u_variant, u_eps_clip, u_ratios, u_log_probs, u_advantages,
           u_value_loss, u_entropy_bonus, u_pc, u_loss, u_clipfracs, u_params,
           u_agent>>

\* ppo_continuous, Agent.__init__: the statements that give the module a
\* parameter, in their order; "optimizer" is optim.Adam(self.parameters()),
\* which takes the parameters the module has when it is called.  Both
\* branches of shared_network assign the same two networks.
AgentInitStatements ==
    <<"actor_neural_net", "critic_neural_net", "optimizer", "actor_logstd">>

RECURSIVE AgentAfter(_)
\* the module after the first k statements of __init__
AgentAfter(k) ==
    IF k = 0 THEN [parameters |-> {}, optimizer |-> {}]
    ELSE LET a == AgentAfter(k - 1)
             s == AgentInitStatements[k]
         IN  IF s = "optimizer" THEN [a EXCEPT !.optimizer = a.parameters]
             ELSE [a EXCEPT !.parameters = a.parameters \cup {s}]

\* agent = Agent(args, ...): every parameter at version 0
Agent ==
    LET a == AgentAfter(Len(AgentInitStatements))
    IN  [parameters |-> a.parameters, optimizer |-> a.optimizer,
         clipped |-> {}, version |-> [p \in a.parameters |-> 0]]

\* TrainState.create(params=init_params, ..., tx=optimizer): one tree of
\* parameters, all of it handed to the optimizer
TrainState ==
    [parameters |-> {"params"}, optimizer |-> {"params"}, clipped |-> {},
     version |-> [p \in {"params"} |-> 0]]

\* clip_grad_norm_(agent.parameters(), 0.5); agent.optimizer.step()
\* (flax: apply_gradients, with the clipping inside the optax chain)
optimizer_step(agent) ==
    [agent EXCEPT !.clipped = agent.parameters,
                  !.version = [p \in agent.parameters |->
                                  IF p \in agent.optimizer
                                  THEN agent.version[p] + 1
                                  ELSE agent.version[p]]]

RatioVals == {Half, One, Rat(13, 10), R(2)}
LogProbVals == {RNeg(One), RNeg(Half)}
AdvantageVals == {RNeg(One), One, NaN, PosInf}
\* the last value stands for an epsilon so large that clipping never binds
EpsClipVals == {Rat(1, 10), Rat(1, 5), Half, R(10)}

\* a minibatch handed to the step
UpdateInit ==
    /\ u_variant \in Variants
    /\ \E n \in 1 .. MaxMinibatchEntries :
          /\ u_advantages \in [0 .. (n - 1) -> AdvantageVals]
          /\ IF u_variant = "a2c_flax"
             THEN /\ u_ratios = <<>>
                  /\ u_log_probs \in [0 .. (n - 1) -> LogProbVals]
                  /\ u_eps_clip = Zero
             ELSE /\ u_ratios \in [0 .. (n - 1) -> RatioVals]
                  /\ u_log_probs = <<>>
                  /\ u_eps_clip \in EpsClipVals
    /\ u_value_loss \in {Zero, One}
    /\ u_entropy_bonus = Zero
    /\ u_pc = "ready"
    /\ u_loss = Zero
    /\ u_clipfracs = <<>>
    /\ u_params = 0
    /\ u_agent = IF u_variant = "ppo_torch" THEN Agent ELSE TrainState

\* ppo_continuous: the body of the minibatch loop
MainMinibatchStep ==
    /\ u_pc = "ready"
    /\ u_variant = "ppo_torch"
    /\ u_clipfracs' = Append(u_clipfracs, clipfrac(u_ratios))
    /\ u_loss' = total_loss(policy_loss(u_ratios, u_advantages, u_eps_clip),
                            u_value_loss, u_entropy_bonus)
    /\ u_params' = u_params + 1
    /\ u_agent' = optimizer_step(u_agent)
    /\ u_pc' = "updated"
    /\ UNCHANGED <<u_variant, u_eps_clip, u_ratios, u_log_probs, u_advantages,
                   u_value_loss, u_entropy_bonus>>

\* flax PPO: one pass of `for batch in zip(*trajectories)` in train_step
PpoTrainStep ==
    /\ u_pc = "ready"
    /\ u_variant = "ppo_flax"
    /\ u_loss' = total_loss(policy_loss(u_ratios, u_advantages, u_eps_clip),
                            u_value_loss, u_entropy_bonus)
    /\ u_params' = u_params + 1
    /\ u_agent' = optimizer_step(u_agent)
    /\ u_pc' = "updated"
    /\ UNCHANGED <<u_variant, u_eps_clip, u_ratios, u_log_probs, u_advantages,
                   u_value_loss, u_entropy_bonus, u_clipfracs>>

\* flax A2C: train_step
A2CTrainStep ==
    /\ u_pc = "ready"
    /\ u_variant = "a2c_flax"
    /\ u_loss' = total_loss(actor_loss(u_log_probs, u_advantages),
                            u_value_loss, u_entropy_bonus)
    /\ u_params' = u_params + 1
    /\ u_agent' = optimizer_step(u_agent)
    /\ u_pc' = "updated"
    /\ UNCHANGED <<u_variant, u_eps_clip, u_ratios, u_log_probs, u_advantages,
                   u_value_loss, u_entropy_bonus, u_clipfracs>>

\* the gradient-step variables while another part is modelled
UpdateParked ==
    /\ u_variant = "none" /\ u_eps_clip = Zero /\ u_ratios = <<>>
    /\ u_log_probs = <<>> /\ u_advantages = <<>> /\ u_value_loss = Zero
    /\ u_entropy_bonus = Zero /\ u_pc = "parked" /\ u_loss = Zero
    /\ u_clipfracs = <<>> /\ u_params = 0 /\ u_agent = <<>>

(***************************************************************************)
(* SpecReplay: the off-policy loops, pytorch_td3_continuous.py with its    *)
(* array ReplayBuffer, td3.py and dqn.py with their deque ReplayBuffer.    *)
(* The environment has one lane.  An observation, an action and a reward   *)
(* are terms naming the step that produced them; a trained network is the  *)
(* number of optimizer steps applied to it and a target network the term   *)
(* of its blends.                                                          *)
(***************************************************************************)
\* --total_timesteps
MaxTimesteps == 5
\* largest --buffer_size
MaxBufferSize == 3
\* largest --batch_size
MaxSampleSize == 2
\* largest --learning_start; the smallest is -1
MaxLearningStart == 2
\* largest --policy_frequency (TD3) and --train-frequency (DQN)
MaxFrequency == 2

OffPolicyScripts == {"td3_array", "td3_deque", "dqn"}
TD3Scripts == {"td3_array", "td3_deque"}

td3_parse_args(total_timesteps, batch_size, buffer_size, learning_start, policy_frequency) ==
    [total_timesteps |-> total_timesteps, batch_size |-> batch_size,
     buffer_size |-> buffer_size, learning_start |-> learning_start,
     policy_frequency |-> policy_frequency]

dqn_parse_args(total_timesteps, batch_size, buffer_size, learning_start, train_frequency) ==
    [total_timesteps |-> total_timesteps, batch_size |-> batch_size,
     buffer_size |-> buffer_size, learning_start |-> learning_start,
     train_frequency |-> train_frequency]

\* the observation the environment returns from its k-th step (k = 0: reset)
EnvObservation(k) == <<"obs", k>>

\* an entry of np.zeros that no push has written
Unwritten == <<"zeros">>

Minimum(a, b) == IF a < b THEN a ELSE b

\* pytorch_td3_continuous.py, ReplayBuffer.__init__
ReplayBuffer(buffer_size, batch_size) ==
    [states |-> [k \in 0 .. (buffer_size - 1) |-> Unwritten],
     actions |-> [k \in 0 .. (buffer_size - 1) |-> Unwritten],
     rewards |-> [k \in 0 .. (buffer_size - 1) |-> Unwritten],
     flags |-> [k \in 0 .. (buffer_size - 1) |-> 0],
     batch_size |-> batch_size, max_size |-> buffer_size,
     idx |-> 0, size |-> 0]

\* the cursor advanced without the modulo
replay_push_no_wrap(self, st, action, reward, flag) ==
    [self EXCEPT !.states[self.idx] = st,
                 !.actions[self.idx] = action,
                 !.rewards[self.idx] = reward,
                 !.flags[self.idx] = flag,
                 !.idx = self.idx + 1,
                 !.size = Minimum(self.size + 1, self.max_size)]

\* pytorch_td3_continuous.py, ReplayBuffer.push
replay_push(self, st, action, reward, flag) ==
    [self EXCEPT !.states[self.idx] = st,
                 !.actions[self.idx] = action,
                 !.rewards[self.idx] = reward,
                 !.flags[self.idx] = flag,
                 !.idx = (self.idx + 1) % self.max_size,
                 !.size = Minimum(self.size + 1, self.max_size)]

\* numpy_rng.integers(low, high, size=size): the arrays it can return, drawn
\* from low .. high - 1; it raises when low >= high, and the set is empty
integers(low, high, size) == [0 .. (size - 1) -> low .. (high - 1)]

\* pytorch_td3_continuous.py, ReplayBuffer.sample, for the drawn idxs; the
\* field idx of an entry records the index it was read at
replay_sample(self, idxs) ==
    [j \in DOMAIN idxs |->
        [idx |-> idxs[j],
         state |-> self.states[idxs[j]],
         action |-> self.actions[idxs[j]],
         reward |-> self.rewards[idxs[j]],
         next_state |-> self.states[idxs[j] + 1],
         flag |-> self.flags[idxs[j]]]]

\* td3.py and dqn.py, ReplayBuffer.__init__: deque(maxlen=buffer_size)
DequeReplayBuffer(buffer_size, batch_size) ==
    [buffer |-> <<>>, maxlen |-> buffer_size, batch_size |-> batch_size]

\* td3.py and dqn.py, ReplayBuffer.push: a full deque drops its oldest entry
deque_push(self, tr) ==
    [self EXCEPT !.buffer = IF Len(self.buffer) = self.maxlen
                            THEN Append(Tail(self.buffer), tr)
                            ELSE Append(self.buffer, tr)]

\* random.sample(population of n, k): k different positions in any order; it
\* raises when k > n, and the set is empty
random_sample(n, k) ==
    {f \in [0 .. (k - 1) -> 1 .. n] :
        \A a, b \in DOMAIN f : a # b => f[a] # f[b]}

\* td3.py and dqn.py, ReplayBuffer.sample, for the drawn positions
deque_sample(self, pos) == [j \in DOMAIN pos |-> self.buffer[pos[j]]]

\* the draws sample() can make; none when its random call raises
Draws(script, self) ==
    IF script = "td3_array"
    THEN integers(0, self.size - 1, self.batch_size)
    ELSE random_sample(Len(self.buffer), self.batch_size)

\* the networks after construction: a trained network has had 0 optimizer
\* steps, a target network is a copy (load_state_dict) of its source
Networks(script) ==
    IF script = "dqn"
    THEN [policy_net |-> 0, target_net |-> <<"copy", 0>>]
    ELSE [actor |-> 0, critic1 |-> 0, critic2 |-> 0,
          target_actor |-> <<"copy", 0>>,
          target_critic1 |-> <<"copy", 0>>,
          target_critic2 |-> <<"copy", 0>>]

\* target_param.data.copy_(tau * param.data + (1 - tau) * target_param.data)
soft_update(source, target) == <<"blend", source, target>>

\* the condition on global_step that starts training at every step from
\* learning_start on
TrainingDue_from_start(script, a, g) ==
    IF script = "dqn"
    THEN g >= a.learning_start /\ g % a.train_frequency = 0
    ELSE g >= a.learning_start

\* `if global_step > args.learning_start:` and, in dqn.py,
\* `if global_step % args.train_frequency == 0:` inside it
TrainingDue(script, a, g) ==
    IF script = "dqn"
    THEN g > a.learning_start /\ g % a.train_frequency = 0
    ELSE g > a.learning_start

\* how the action of step g is chosen: TD3 draws it uniformly before
\* learning_start and from the actor afterwards; DQN is epsilon-greedy
ActionKind(script, a, g) ==
    IF script = "dqn" THEN "eps_greedy"
    ELSE IF g < a.learning_start THEN "uniform" ELSE "policy"

\* TD3, the body of `if global_step > args.learning_start:`: the critics'
\* optimizer step, then, when global_step % policy_frequency is 0, the
\* actor's optimizer step followed by the soft update of the three targets
td3_train(nets, g, policy_frequency) ==
    LET c == [nets EXCEPT !.critic1 = nets.critic1 + 1,
                          !.critic2 = nets.critic2 + 1]
        a == [c EXCEPT !.actor = c.actor + 1]
    IN  IF g % policy_frequency = 0
        THEN [a EXCEPT
                !.target_actor = soft_update(a.actor, a.target_actor),
                !.target_critic1 = soft_update(a.critic1, a.target_critic1),
                !.target_critic2 = soft_update(a.critic2, a.target_critic2)]
        ELSE c

\* the statements of td3_train that write a network, in their order
td3_writes(g, policy_frequency) ==
    IF g % policy_frequency = 0
    THEN <<"optimizer_critic", "optimizer_actor", "target_actor",
           "target_critic1", "target_critic2">>
    ELSE <<"optimizer_critic">>

\* dqn.py, the training step: the optimizer step of policy_net, then the
\* soft update of target_net
dqn_train(nets) ==
    LET q == [nets EXCEPT !.policy_net = nets.policy_net + 1]
    IN  [q EXCEPT !.target_net = soft_update(q.policy_net, q.target_net)]

dqn_writes == <<"optimizer", "target_net">>

VARIABLES
    o_script,       \* which script runs
    o_args,         \* parse_args()
    o_pc,           \* "act", "train", "done", "failed" (sample raised)
    o_global_step,  \* the loop index
    o_state,        \* the name `state`
    o_replay,       \* replay_buffer
    o_batch,        \* what the latest sample() returned
    o_nets,         \* the networks
    o_trace,        \* history: per step, how it acted and what it wrote
    o_pushes        \* history: number of push calls so far

ovars == <<o_script, o_args, o_pc, o_global_step, o_state, o_replay, o_batch,
           o_nets, o_trace, o_pushes>>

OffConfigs ==
    {<<sc, td3_parse_args(MaxTimesteps, bs, bf, ls, pf)>> :
        sc \in TD3Scripts, bs \in 1 .. MaxSampleSize, bf \in 1 .. MaxBufferSize,
        ls \in (-1) .. MaxLearningStart, pf \in 1 .. MaxFrequency}
    \cup
    {<<"dqn", dqn_parse_args(MaxTimesteps, bs, bf, ls, tf)>> :
        bs \in 1 .. MaxSampleSize, bf \in 1 .. MaxBufferSize,
        ls \in (-1) .. MaxLearningStart, tf \in 1 .. MaxFrequency}

\* the state when the main loop is entered
OffInit ==
    \E c \in OffConfigs :
        /\ o_script = c[1]
        /\ o_args = c[2]
        /\ o_pc = IF c[2].total_timesteps > 0 THEN "act" ELSE "done"
        /\ o_global_step = 0
        /\ o_state = EnvObservation(0)
        /\ o_replay = IF c[1] = "td3_array"
                      THEN ReplayBuffer(c[2].buffer_size, c[2].batch_size)
                      ELSE DequeReplayBuffer(c[2].buffer_size, c[2].batch_size)
        /\ o_batch = <<>>
        /\ o_nets = Networks(c[1])
        /\ o_trace = <<>>
        /\ o_pushes = 0

\* the off-policy variables while another part is modelled
OffParked ==
    /\ o_script = "none" /\ o_args = <<>> /\ o_pc = "parked"
    /\ o_global_step = 0 /\ o_state = <<>> /\ o_replay = <<>> /\ o_batch = <<>>
    /\ o_nets = <<>> /\ o_trace = <<>> /\ o_pushes = 0

\* the first half of the loop body: choose the action, env.step, push,
\* state = next_state.  done is terminated or truncated of the step.
CollectStep(done) ==
    /\ o_pc = "act"
    /\ LET kind == ActionKind(o_script, o_args, o_global_step)
           action == <<"action", o_global_step>>
           reward == <<"reward", o_global_step>>
           nxt == EnvObservation(o_global_step + 1)
       IN  /\ o_replay' =
                IF o_script = "td3_array"
                THEN replay_push(o_replay, o_state, action, reward, 1 - done)
                ELSE deque_push(o_replay,
                                [state |-> o_state, action |-> action,
                                 reward |-> reward, next_state |-> nxt,
                                 flag |-> done])
           /\ o_state' = nxt
           /\ o_trace' = Append(o_trace, [kind |-> kind, writes |-> <<>>])
    /\ o_pushes' = o_pushes + 1
    /\ o_pc' = "train"
    /\ UNCHANGED <<o_script, o_args, o_global_step, o_batch, o_nets>>

\* the for statement takes the next global_step, or the loop ends
NextIteration ==
    /\ o_global_step' = o_global_step + 1
    /\ o_pc' = IF o_global_step + 1 < o_args.total_timesteps
               THEN "act" ELSE "done"

\* the training condition is false: nothing is sampled or written
SkipTraining ==
    /\ o_pc = "train"
    /\ ~TrainingDue(o_script, o_args, o_global_step)
    /\ NextIteration
    /\ UNCHANGED <<o_script, o_args, o_state, o_replay, o_batch, o_nets,
                   o_trace, o_pushes>>

\* replay_buffer.sample() raises ValueError: the script stops
SampleFails ==
    /\ o_pc = "train"
    /\ TrainingDue(o_script, o_args, o_global_step)
    /\ Draws(o_script, o_replay) = {}
    /\ o_pc' = "failed"
    /\ UNCHANGED <<o_script, o_args, o_global_step, o_state, o_replay, o_batch,
                   o_nets, o_trace, o_pushes>>

\* the training step on the batch of draw d
TrainStep(d) ==
    /\ o_pc = "train"
    /\ TrainingDue(o_script, o_args, o_global_step)
    /\ o_batch' = IF o_script = "td3_array" THEN replay_sample(o_replay, d)
                  ELSE deque_sample(o_replay, d)
    /\ o_nets' = IF o_script = "dqn" THEN dqn_train(o_nets)
                 ELSE td3_train(o_nets, o_global_step, o_args.policy_frequency)
    /\ o_trace' =
          [o_trace EXCEPT ![Len(o_trace)].writes =
              IF o_script = "dqn" THEN dqn_writes
              ELSE td3_writes(o_global_step, o_args.policy_frequency)]
    /\ NextIteration
    /\ UNCHANGED <<o_script, o_args, o_state, o_replay, o_pushes>>

(***************************************************************************)
(* Spec: the training loop of the three scripts.  Spec follows where every *)
(* stored value comes from, not its number: an observation, a sampled      *)
(* action, a reward, a flag, a log-probability and a critic value are      *)
(* terms naming the call that produced them (the numbers of the estimation *)
(* phase are SpecGAE's).                                                   *)
(***************************************************************************)
\* most iterations of the outer loop the model follows
MaxUpdates == 2
\* largest num_steps * num_envs
MaxBatchSize == 5
\* largest --num_optims
MaxOptims == 2
\* largest --minibatch_size (flax PPO) / --num-minibatches (ppo_continuous)
MaxMinibatchArg == 3
\* --total_timesteps
TimestepVals == {4, 8}

\* parse_args of flax PPO: the derived fields
parse_args(total_timesteps, num_envs, num_steps, num_optims, minibatch_size) ==
    LET batch_size == num_envs * num_steps
    IN  [total_timesteps |-> total_timesteps, num_envs |-> num_envs,
         num_steps |-> num_steps, num_optims |-> num_optims,
         minibatch_size |-> minibatch_size,
         batch_size |-> batch_size,
         num_minibatches |-> batch_size \div minibatch_size,
         num_updates |-> total_timesteps \div batch_size]

\* parse_args of flax A2C: no epochs and no minibatches
a2c_parse_args(total_timesteps, num_envs, num_steps) ==
    LET batch_size == num_envs * num_steps
    IN  [total_timesteps |-> total_timesteps, num_envs |-> num_envs,
         num_steps |-> num_steps, num_optims |-> 0,
         minibatch_size |-> 0,
         batch_size |-> batch_size,
         num_minibatches |-> 0,
         num_updates |-> total_timesteps \div batch_size]

\* parse_args of ppo_continuous
torch_parse_args(total_timesteps, num_envs, num_steps, num_optims, num_minibatches) ==
    LET batch_size == num_envs * num_steps
    IN  [total_timesteps |-> total_timesteps, num_envs |-> num_envs,
         num_steps |-> num_steps, num_optims |-> num_optims,
         minibatch_size |-> batch_size \div num_minibatches,
         batch_size |-> batch_size,
         num_minibatches |-> num_minibatches,
         num_updates |-> total_timesteps \div num_steps]

(***************************************************************************)
(* The collaborators, as terms.                                            *)
(***************************************************************************)
\* the observation of lane n returned by the k-th env call (reset is call 0)
Obs(k, n) == <<"obs", k, n>>
\* envs.step: what the k-th step call returns (k counts from 0)
EnvNextState(k, N) == [n \in Lanes(N) |-> Obs(k + 1, n)]
EnvReward(k, N) == [n \in Lanes(N) |-> <<"rew", k, n>>]
EnvDone(k, N) == [n \in Lanes(N) |-> <<"done", k, n>>]

\* dist.log_prob(action) and the critic value under parameters `params`
LogProb(params, state, action) == <<"logp", params, state, action>>
Value(params, state) == <<"val", params, state>>

\* policy_predict / get_action_value(state): sample, log-prob, value
policy_predict(params, state, key) ==
    LET action == [n \in DOMAIN state |-> <<"act", key, n>>]
    IN  [action |-> action,
         log_prob |-> [n \in DOMAIN state |-> LogProb(params, state[n], action[n])],
         value |-> [n \in DOMAIN state |-> Value(params, state[n])],
         key |-> key + 1]

\* policy_critic / get_value
policy_critic(params, state) == [n \in DOMAIN state |-> Value(params, state[n])]

\* policy_evaluate / get_action_value(states, actions) on a minibatch
policy_evaluate(params, states, actions) ==
    [log_probs |-> [j \in DOMAIN states |-> LogProb(params, states[j], actions[j])],
     values |-> [j \in DOMAIN states |-> Value(params, states[j])]]

\* ratios = exp(log_probs - old_log_probs): 1 where the two log-probabilities
\* are the same term, otherwise the quotient of the two
Ratio(new_log_prob, old_log_prob) ==
    IF new_log_prob = old_log_prob THEN One
    ELSE <<"exp", new_log_prob, old_log_prob>>

(***************************************************************************)
(* RolloutBuffer.                                                          *)
(***************************************************************************)
Zeros(T, N) == [t \in Steps(T) |-> [n \in Lanes(N) |-> 0]]

\* RolloutBuffer.__init__ (the A2C buffer has no log_probs array)
RolloutBuffer(num_steps, num_envs) ==
    [states |-> Zeros(num_steps, num_envs),
     actions |-> Zeros(num_steps, num_envs),
     rewards |-> Zeros(num_steps, num_envs),
     flags |-> Zeros(num_steps, num_envs),
     log_probs |-> Zeros(num_steps, num_envs),
     values |-> Zeros(num_steps, num_envs),
     step |-> 0,
     num_steps |-> num_steps]

\* push with the cursor stopped at the last row instead of wrapped
push_no_wrap(self, state, action, reward, flag, log_prob, value) ==
    [self EXCEPT !.states[self.step] = state,
                 !.actions[self.step] = action,
                 !.rewards[self.step] = reward,
                 !.flags[self.step] = flag,
                 !.log_probs[self.step] = log_prob,
                 !.values[self.step] = value,
                 !.step = IF self.step + 1 < self.num_steps
                          THEN self.step + 1 ELSE self.step]

\* push with the reward written after the cursor has moved
push_reward_late(self, state, action, reward, flag, log_prob, value) ==
    [self EXCEPT !.states[self.step] = state,
                 !.actions[self.step] = action,
                 !.rewards[(self.step + 1) % self.num_steps] = reward,
                 !.flags[self.step] = flag,
                 !.log_probs[self.step] = log_prob,
                 !.values[self.step] = value,
                 !.step = (self.step + 1) % self.num_steps]

\* RolloutBuffer.push
push(self, state, action, reward, flag, log_prob, value) ==
    [self EXCEPT !.states[self.step] = state,
                 !.actions[self.step] = action,
                 !.rewards[self.step] = reward,
                 !.flags[self.step] = flag,
                 !.log_probs[self.step] = log_prob,
                 !.values[self.step] = value,
                 !.step = (self.step + 1) % self.num_steps]

\* RolloutBuffer.push of A2C: no log_prob
a2c_push(self, state, action, reward, flag, value) ==
    [self EXCEPT !.states[self.step] = state,
                 !.actions[self.step] = action,
                 !.rewards[self.step] = reward,
                 !.flags[self.step] = flag,
                 !.values[self.step] = value,
                 !.step = (self.step + 1) % self.num_steps]

\* RolloutBuffer.get: the arrays themselves
get(self) ==
    [states |-> self.states, actions |-> self.actions, rewards |-> self.rewards,
     flags |-> self.flags, log_probs |-> self.log_probs, values |-> self.values]

\* ppo_continuous: states[i] = ..., actions[i] = ..., written at the loop index
main_store(self, i, state, action, reward, log_prob, value, done) ==
    [self EXCEPT !.states[i] = state,
                 !.actions[i] = action,
                 !.rewards[i] = reward,
                 !.log_probs[i] = log_prob,
                 !.values[i] = value,
                 !.flags[i] = done]

(***************************************************************************)
(* State of the training loop.                                             *)
(***************************************************************************)
VARIABLES
    variant,         \* which script runs
    args,            \* parse_args()
    pc,              \* the statement the script is at
    update,          \* index of the outer loop
    i,               \* index of the rollout loop
    epoch,           \* index of the loop over num_optims
    mb,              \* minibatches of the epoch already done
    global_step,
    lr,              \* the optimizer's learning rate, as a multiple of --learning-rate
    key,             \* PRNG state: number of draws so far
    env_t,           \* number of envs.step calls so far
    state,           \* the name `state`
    next_state,      \* the name `next_state` ("unbound" before the first step)
    params,          \* policy parameters: number of optimizer steps applied
    rollout_buffer,  \* the RolloutBuffer (ppo_continuous: its six tensors)
    last_value,      \* bootstrap value
    advantages,
    td_target,
    batch,           \* the flattened batch, in its current order
    batch_indexes,   \* ppo_continuous: the shuffled index array
    ratios,          \* importance ratios of the latest minibatch
    pushed,          \* history: the transitions pushed since the last get()
    push_count,      \* history: number of push calls so far
    epoch_log,       \* history: the batch indices of each minibatch of the epoch
    infos,           \* the lanes whose final_info of the latest envs.step is not None
    emitted          \* the episode metrics the latest statement wrote

lvars == <<variant, args, pc, update, i, epoch, mb, global_step, lr, key, env_t,
           state, next_state, params, rollout_buffer, last_value, advantages,
           td_target, batch, batch_indexes, ratios, pushed, push_count,
           epoch_log, infos, emitted>>

vars == <<lvars, gvars, uvars, ovars>>

\* the estimation-phase variables while the training loop is modelled
GaeParked ==
    /\ g_num_steps = 0 /\ g_num_envs = 0 /\ g_rewards = <<>> /\ g_values = <<>>
    /\ g_dones = <<>> /\ g_last_value = <<>> /\ g_gamma = Zero /\ g_gae = Zero
    /\ g_variant = "none" /\ g_pc = "parked" /\ g_flags = <<>>
    /\ g_advantages = <<>> /\ g_raw = <<>> /\ g_td_target = <<>>

\* the training-loop variables while the estimation phase is modelled
LoopParked ==
    /\ variant = "none" /\ args = <<>> /\ pc = "parked" /\ update = 0 /\ i = 0
    /\ epoch = 0 /\ mb = 0 /\ global_step = 0 /\ key = 0 /\ env_t = 0
    /\ state = <<>> /\ next_state = <<>> /\ params = 0 /\ rollout_buffer = <<>>
    /\ last_value = <<>> /\ advantages = <<>> /\ td_target = <<>> /\ batch = <<>>
    /\ batch_indexes = <<>> /\ ratios = <<>> /\ pushed = <<>> /\ push_count = 0
    /\ epoch_log = <<>> /\ lr = Zero /\ infos = {} /\ emitted = <<>>

Shapes ==
    {sh \in (1 .. MaxBatchSize) \X (1 .. MaxBatchSize) : sh[1] * sh[2] <= MaxBatchSize}

\* the configurations: (variant, args)
Configs ==
    {<<"ppo_flax", parse_args(tt, sh[2], sh[1], no, ms)>> :
        tt \in TimestepVals, sh \in Shapes, no \in 1 .. MaxOptims,
        ms \in 1 .. MaxMinibatchArg}
    \cup
    {<<"a2c_flax", a2c_parse_args(tt, sh[2], sh[1])>> :
        tt \in TimestepVals, sh \in Shapes}
    \cup
    {<<"ppo_torch", torch_parse_args(tt, sh[2], sh[1], no, nm)>> :
        tt \in TimestepVals, sh \in Shapes, no \in 1 .. MaxOptims,
        nm \in 1 .. MaxMinibatchArg}

\* the state when the main loop is entered: envs.reset() done, the buffer
\* zero-filled, global_step = 0
LoopInit ==
    \E c \in Configs :
        /\ variant = c[1]
        /\ args = c[2]
        /\ pc = IF c[2].num_updates > 0 THEN "begin" ELSE "done"
        /\ update = 0 /\ i = 0 /\ epoch = 0 /\ mb = 0
        /\ global_step = 0 /\ key = 0 /\ env_t = 0
        /\ state = [n \in Lanes(c[2].num_envs) |-> Obs(0, n)]
        /\ next_state = "unbound"
        /\ params = 0
        /\ rollout_buffer = RolloutBuffer(c[2].num_steps, c[2].num_envs)
        /\ last_value = <<>> /\ advantages = <<>> /\ td_target = <<>>
        /\ batch = <<>> /\ batch_indexes = <<>> /\ ratios = <<>>
        /\ pushed = <<>> /\ push_count = 0 /\ epoch_log = <<>>
        /\ lr = One
        /\ infos = {} /\ emitted = <<>>

Init == LoopInit /\ GaeParked /\ UpdateParked /\ OffParked

(***************************************************************************)
(* The statements of the main loop.                                        *)
(***************************************************************************)
GaeIdle == UNCHANGED <<gvars, uvars, ovars>>

IsFlax == variant \in FlaxVariants

\* the transition of one rollout step, as the arguments of push
Transition(pred, reward, flag) ==
    [state |-> state, action |-> pred.action, reward |-> reward, flag |-> flag,
     log_prob |-> IF variant = "a2c_flax" THEN "absent" ELSE pred.log_prob,
     value |-> pred.value]

\* flag = 1.0 - np.logical_or(terminated, truncated)
NotDone(done) == [n \in DOMAIN done |-> <<"not", done[n]>>]

\* the store of one transition, by variant
Store(tr, done) ==
    CASE variant = "ppo_flax" ->
            push(rollout_buffer, tr.state, tr.action, tr.reward, tr.flag,
                 tr.log_prob, tr.value)
      [] variant = "a2c_flax" ->
            a2c_push(rollout_buffer, tr.state, tr.action, tr.reward, tr.flag,
                     tr.value)
      [] variant = "ppo_torch" ->
            main_store(rollout_buffer, i, tr.state, tr.action, tr.reward,
                       tr.log_prob, tr.value, done)

\* frac = 1. - (update - 1.) / args.num_updates; new_lr = frac * learning_rate
new_lr(upd, num_updates) == RSub(One, Rat(upd - 1, num_updates))

\* the head of the outer loop: ppo_continuous anneals the learning rate, the
\* flax scripts keep the rate the optimizer was built with
BeginUpdate ==
    /\ pc = "begin"
    /\ lr' = IF variant = "ppo_torch" THEN new_lr(update, args.num_updates) ELSE lr
    /\ pc' = "rollout"
    /\ UNCHANGED <<variant, args, update, i, epoch, mb, global_step, key, env_t,
                   state, next_state, params, rollout_buffer, last_value,
                   advantages, td_target, batch, batch_indexes, ratios, pushed,
                   push_count, epoch_log, infos, emitted>>
    /\ GaeIdle

\* the two scalars written for lane n when its episode ended (flax writes
\* the mean of the latest five returns and lengths under the same names)
EpisodeScalars(n, step) ==
    <<[name |-> "rollout/episodic_return", lane |-> n, global_step |-> step],
      [name |-> "rollout/episodic_length", lane |-> n, global_step |-> step]>>

RECURSIVE LogLanes(_, _, _)
\* `for info in infos["final_info"]`, from lane n on: None entries are skipped
LogLanes(n, ended, step) ==
    IF n >= args.num_envs THEN <<>>
    ELSE (IF n \in ended THEN EpisodeScalars(n, step) ELSE <<>>)
         \o LogLanes(n + 1, ended, step)

\* the tail of the rollout step: nothing when infos has no "final_info"
LogEpisodes(ended, step) == IF ended = {} THEN <<>> ELSE LogLanes(0, ended, step)

\* one pass of the rollout loop with the push skipped when the step carries
\* final_info (the `continue` taken before the store)
RolloutStep_continue_before_push(ended) ==
    /\ pc = "rollout"
    /\ i < args.num_steps
    /\ LET pred == policy_predict(params, state, key)
           reward == EnvReward(env_t, args.num_envs)
           done == EnvDone(env_t, args.num_envs)
           tr == Transition(pred, reward, NotDone(done))
       IN  /\ global_step' = global_step + (IF IsFlax THEN args.num_envs ELSE 1)
           /\ key' = pred.key
           /\ rollout_buffer' = IF ended # {} THEN rollout_buffer ELSE Store(tr, done)
           /\ pushed' = IF IsFlax /\ ended = {} THEN Append(pushed, tr) ELSE pushed
           /\ push_count' = IF IsFlax /\ ended = {} THEN push_count + 1 ELSE push_count
    /\ state' = EnvNextState(env_t, args.num_envs)
    /\ next_state' = EnvNextState(env_t, args.num_envs)
    /\ env_t' = env_t + 1
    /\ i' = i + 1
    /\ infos' = ended
    /\ emitted' = LogEpisodes(ended, global_step')
    /\ UNCHANGED <<variant, args, lr, pc, update, epoch, mb, params, last_value,
                   advantages, td_target, batch, batch_indexes, ratios, epoch_log>>
    /\ GaeIdle

\* one pass of the rollout loop that also moves the parameters
RolloutStep_update_while_collecting(ended) ==
    /\ pc = "rollout"
    /\ i < args.num_steps
    /\ LET pred == policy_predict(params, state, key)
           reward == EnvReward(env_t, args.num_envs)
           done == EnvDone(env_t, args.num_envs)
           tr == Transition(pred, reward, NotDone(done))
       IN  /\ global_step' = global_step + (IF IsFlax THEN args.num_envs ELSE 1)
           /\ key' = pred.key
           /\ rollout_buffer' = Store(tr, done)
           /\ pushed' = IF IsFlax THEN Append(pushed, tr) ELSE pushed
           /\ push_count' = IF IsFlax THEN push_count + 1 ELSE push_count
    /\ state' = EnvNextState(env_t, args.num_envs)
    /\ next_state' = EnvNextState(env_t, args.num_envs)
    /\ env_t' = env_t + 1
    /\ i' = i + 1
    /\ infos' = ended
    /\ emitted' = LogEpisodes(ended, global_step')
    /\ params' = params + 1
    /\ UNCHANGED <<variant, args, lr, pc, update, epoch, mb, last_value,
                   advantages, td_target, batch, batch_indexes, ratios, epoch_log>>
    /\ GaeIdle

\* one pass of the rollout loop that resets the environment when a lane ended
RolloutStep_reset_on_done(ended) ==
    /\ pc = "rollout"
    /\ i < args.num_steps
    /\ LET pred == policy_predict(params, state, key)
           reward == EnvReward(env_t, args.num_envs)
           done == EnvDone(env_t, args.num_envs)
           tr == Transition(pred, reward, NotDone(done))
       IN  /\ global_step' = global_step + (IF IsFlax THEN args.num_envs ELSE 1)
           /\ key' = pred.key
           /\ rollout_buffer' = Store(tr, done)
           /\ pushed' = IF IsFlax THEN Append(pushed, tr) ELSE pushed
           /\ push_count' = IF IsFlax THEN push_count + 1 ELSE push_count
    /\ state' = IF ended # {} THEN [n \in Lanes(args.num_envs) |-> Obs(0, n)]
                 ELSE EnvNextState(env_t, args.num_envs)
    /\ next_state' = EnvNextState(env_t, args.num_envs)
    /\ env_t' = env_t + 1
    /\ i' = i + 1
    /\ infos' = ended
    /\ emitted' = LogEpisodes(ended, global_step')
    /\ UNCHANGED <<variant, args, lr, pc, update, epoch, mb, params, last_value,
                   advantages, td_target, batch, batch_indexes, ratios, epoch_log>>
    /\ GaeIdle

\* one pass of `for _ in range(args.num_steps)`: predict, step the
\* environment, store the transition, then log the episodes that ended
\* (ended: the lanes whose episode ended at this step; infos carries
\* "final_info" exactly when there is one)
RolloutStep(ended) ==
    /\ pc = "rollout"
    /\ i < args.num_steps
    /\ LET pred == policy_predict(params, state, key)
           reward == EnvReward(env_t, args.num_envs)
           done == EnvDone(env_t, args.num_envs)
           tr == Transition(pred, reward, NotDone(done))
       IN  /\ global_step' = global_step + (IF IsFlax THEN args.num_envs ELSE 1)
           /\ key' = pred.key
           /\ rollout_buffer' = Store(tr, done)
           /\ pushed' = IF IsFlax THEN Append(pushed, tr) ELSE pushed
           /\ push_count' = IF IsFlax THEN push_count + 1 ELSE push_count
    /\ state' = EnvNextState(env_t, args.num_envs)
    /\ next_state' = EnvNextState(env_t, args.num_envs)
    /\ env_t' = env_t + 1
    /\ i' = i + 1
    /\ infos' = ended
    /\ emitted' = LogEpisodes(ended, global_step')
    /\ UNCHANGED <<variant, args, lr, pc, update, epoch, mb, params, last_value,
                   advantages, td_target, batch, batch_indexes, ratios, epoch_log>>
    /\ GaeIdle

\* the rollout loop has run num_steps times: rollout_buffer.get() and the
\* bootstrap value of next_state
AtGet == pc = "rollout" /\ i = args.num_steps

GetTrajectory ==
    /\ AtGet
    /\ last_value' = policy_critic(params, next_state)
    /\ pushed' = <<>>
    /\ infos' = {} /\ emitted' = <<>>
    /\ pc' = "advantages"
    /\ UNCHANGED <<variant, args, lr, update, i, epoch, mb, global_step, key, env_t,
                   state, next_state, params, rollout_buffer, advantages,
                   td_target, batch, batch_indexes, ratios, push_count, epoch_log>>
    /\ GaeIdle

\* the advantage step writing td_target over the stored values
CalculateAdvantages_in_place ==
    /\ pc = "advantages"
    /\ LET tr == get(rollout_buffer)
       IN  /\ advantages' =
                [t \in Steps(args.num_steps) |-> [n \in Lanes(args.num_envs) |->
                    <<"adv", tr.rewards[t][n], tr.values[t][n], tr.flags[t][n],
                      last_value[n]>>]]
           /\ td_target' =
                [t \in Steps(args.num_steps) |-> [n \in Lanes(args.num_envs) |->
                    <<"td", advantages'[t][n], tr.values[t][n]>>]]
    /\ rollout_buffer' = [rollout_buffer EXCEPT !.values = td_target']
    /\ pc' = "normalize"
    /\ UNCHANGED <<variant, args, lr, infos, emitted, update, i, epoch, mb,
                   global_step, key, env_t, state, next_state, params,
                   last_value, batch, batch_indexes, ratios, pushed, push_count,
                   epoch_log>>
    /\ GaeIdle

\* advantages = compute_advantages(...); td_target = advantages + values
CalculateAdvantages ==
    /\ pc = "advantages"
    /\ LET tr == get(rollout_buffer)
       IN  /\ advantages' =
                [t \in Steps(args.num_steps) |-> [n \in Lanes(args.num_envs) |->
                    <<"adv", tr.rewards[t][n], tr.values[t][n], tr.flags[t][n],
                      last_value[n]>>]]
           /\ td_target' =
                [t \in Steps(args.num_steps) |-> [n \in Lanes(args.num_envs) |->
                    <<"td", advantages'[t][n], tr.values[t][n]>>]]
    /\ pc' = "normalize"
    /\ UNCHANGED <<variant, args, lr, infos, emitted, update, i, epoch, mb, global_step, key, env_t,
                   state, next_state, params, rollout_buffer, last_value, batch,
                   batch_indexes, ratios, pushed, push_count, epoch_log>>
    /\ GaeIdle

\* advantages = (advantages - advantages.mean()) / (advantages.std() + eps)
NormalizeBatch ==
    /\ pc = "normalize"
    /\ advantages' =
         [t \in Steps(args.num_steps) |-> [n \in Lanes(args.num_envs) |->
             <<"norm", advantages[t][n]>>]]
    /\ pc' = "flatten"
    /\ UNCHANGED <<variant, args, lr, infos, emitted, update, i, epoch, mb, global_step, key, env_t,
                   state, next_state, params, rollout_buffer, last_value,
                   td_target, batch, batch_indexes, ratios, pushed, push_count,
                   epoch_log>>
    /\ GaeIdle

\* the flattened batch: entry t * num_envs + n is cell (t, n) of every table;
\* idx is the entry's place in this flattened order
FlatBatch ==
    LET tr == get(rollout_buffer)
        N == args.num_envs
    IN  [j \in 0 .. (args.batch_size - 1) |->
            [idx |-> j,
             state |-> tr.states[j \div N][j % N],
             action |-> tr.actions[j \div N][j % N],
             log_prob |-> tr.log_probs[j \div N][j % N],
             advantage |-> advantages[j \div N][j % N],
             td_target |-> td_target[j \div N][j % N]]]

FlattenBatch ==
    /\ pc = "flatten"
    /\ batch' = FlatBatch
    /\ batch_indexes' =
         IF variant = "ppo_torch" THEN [j \in 0 .. (args.batch_size - 1) |-> j]
         ELSE batch_indexes
    /\ epoch' = 0
    /\ pc' = IF variant = "a2c_flax" THEN "a2c_update" ELSE "epochs"
    /\ UNCHANGED <<variant, args, lr, infos, emitted, update, i, mb, global_step, key, env_t, state,
                   next_state, params, rollout_buffer, last_value, advantages,
                   td_target, ratios, pushed, push_count, epoch_log>>
    /\ GaeIdle

(***************************************************************************)
(* The update phase.                                                       *)
(***************************************************************************)
\* index draws with replacement instead of a permutation
Resamples(B) == [0 .. (B - 1) -> 0 .. (B - 1)]

\* jax.random.permutation(subkey, batch_size) / np.random.shuffle: any
\* permutation of 0 .. B - 1
permutation(B) ==
    {perm \in [0 .. (B - 1) -> 0 .. (B - 1)] :
        \A a, b \in 0 .. (B - 1) : a # b => perm[a] # perm[b]}

\* the permutation applied to every field but the old log-probabilities
PermuteBatch_keep_log_probs(xs, perm) ==
    [j \in DOMAIN xs |-> [xs[perm[j]] EXCEPT !.log_prob = xs[j].log_prob]]

\* the permutation applied to every array but the advantages
PermuteBatch_keep_advantages(xs, perm) ==
    [j \in DOMAIN xs |-> [xs[perm[j]] EXCEPT !.advantage = xs[j].advantage]]

\* batch = tuple(x[permutation] for x in batch)
PermuteBatch(xs, perm) == [j \in DOMAIN xs |-> xs[perm[j]]]

\* batch_indexes shuffled in place
ShuffleIndexes(indexes, perm) == [j \in DOMAIN indexes |-> indexes[perm[j]]]

\* `for _ in range(args.num_optims)`: draw the epoch's permutation
ShuffleBatch ==
    /\ pc = "epochs"
    /\ epoch < args.num_optims
    /\ \E perm \in permutation(args.batch_size) :
          IF variant = "ppo_flax"
          THEN /\ batch' = PermuteBatch(batch, perm)
               /\ UNCHANGED batch_indexes
          ELSE /\ batch_indexes' = ShuffleIndexes(batch_indexes, perm)
               /\ UNCHANGED batch
    /\ key' = key + 1
    /\ mb' = 0
    /\ epoch_log' = <<>>
    /\ pc' = "minibatch"
    /\ UNCHANGED <<variant, args, lr, infos, emitted, update, i, epoch, global_step, env_t, state,
                   next_state, params, rollout_buffer, last_value, advantages,
                   td_target, ratios, pushed, push_count>>
    /\ GaeIdle

\* flax: x.reshape((num_minibatches, minibatch_size) + ...) needs
\* num_minibatches * minibatch_size = batch_size; ppo_continuous:
\* range(0, batch_size, minibatch_size) needs minibatch_size # 0
MinibatchLoopFails ==
    IF variant = "ppo_flax"
    THEN args.num_minibatches * args.minibatch_size # args.batch_size
    ELSE args.minibatch_size = 0

\* the minibatch loop of the epoch has run out
MinibatchLoopDone ==
    /\ ~MinibatchLoopFails
    /\ IF variant = "ppo_flax"
       THEN mb >= args.num_minibatches
       ELSE mb * args.minibatch_size >= args.batch_size

\* the entries of minibatch number m, in order
Minibatch(m) ==
    LET start == m * args.minibatch_size
        end == IF start + args.minibatch_size < args.batch_size
               THEN start + args.minibatch_size ELSE args.batch_size
    IN  IF variant = "ppo_flax"
        THEN [j \in 0 .. (args.minibatch_size - 1) |-> batch[start + j]]
        ELSE [j \in 0 .. (end - start - 1) |-> batch[batch_indexes[start + j]]]

\* train_step / range() raises before the first minibatch
TrainStepFails ==
    /\ pc = "minibatch"
    /\ mb = 0
    /\ MinibatchLoopFails
    /\ pc' = "error"
    /\ UNCHANGED <<variant, args, lr, infos, emitted, update, i, epoch, mb, global_step, key, env_t,
                   state, next_state, params, rollout_buffer, last_value,
                   advantages, td_target, batch, batch_indexes, ratios, pushed,
                   push_count, epoch_log>>
    /\ GaeIdle

\* one minibatch: evaluate, ratios, loss, one optimizer step
MinibatchUpdate ==
    /\ pc = "minibatch"
    /\ ~MinibatchLoopFails
    /\ ~MinibatchLoopDone
    /\ LET rows == Minibatch(mb)
           ev == policy_evaluate(params,
                                 [j \in DOMAIN rows |-> rows[j].state],
                                 [j \in DOMAIN rows |-> rows[j].action])
       IN  /\ ratios' = [j \in DOMAIN rows |->
                            Ratio(ev.log_probs[j], rows[j].log_prob)]
           /\ epoch_log' = Append(epoch_log, [j \in DOMAIN rows |-> rows[j].idx])
    /\ params' = params + 1
    /\ mb' = mb + 1
    /\ UNCHANGED <<variant, args, lr, infos, emitted, pc, update, i, epoch, global_step, key, env_t,
                   state, next_state, rollout_buffer, last_value, advantages,
                   td_target, batch, batch_indexes, pushed, push_count>>
    /\ GaeIdle

\* the end of an epoch that starts a new rollout while epochs remain
EndEpoch_rollout_between_epochs ==
    /\ pc = "minibatch"
    /\ MinibatchLoopDone
    /\ epoch' = epoch + 1
    /\ pc' = IF epoch + 1 < args.num_optims THEN "rollout" ELSE "log"
    /\ i' = IF epoch + 1 < args.num_optims THEN 0 ELSE i
    /\ UNCHANGED <<variant, args, lr, infos, emitted, update, mb, global_step, key, env_t, state,
                   next_state, params, rollout_buffer, last_value, advantages,
                   td_target, batch, batch_indexes, ratios, pushed, push_count,
                   epoch_log>>
    /\ GaeIdle

\* the epoch's minibatches are done: next epoch, or the metrics
EndEpoch ==
    /\ pc = "minibatch"
    /\ MinibatchLoopDone
    /\ epoch' = epoch + 1
    /\ pc' = IF epoch + 1 < args.num_optims THEN "epochs" ELSE "log"
    /\ UNCHANGED <<variant, args, lr, infos, emitted, update, i, mb, global_step, key, env_t, state,
                   next_state, params, rollout_buffer, last_value, advantages,
                   td_target, batch, batch_indexes, ratios, pushed, push_count,
                   epoch_log>>
    /\ GaeIdle

\* A2C with a second optimizer step on the same batch
A2CUpdate_two_steps ==
    /\ pc = "a2c_update"
    /\ params' = params + 2
    /\ epoch_log' = <<[j \in DOMAIN batch |-> batch[j].idx],
                      [j \in DOMAIN batch |-> batch[j].idx]>>
    /\ pc' = "log"
    /\ UNCHANGED <<variant, args, lr, infos, emitted, update, i, epoch, mb, global_step, key, env_t,
                   state, next_state, rollout_buffer, last_value, advantages,
                   td_target, batch, batch_indexes, ratios, pushed, push_count>>
    /\ GaeIdle

\* A2C: train_step on the whole batch, one optimizer step
A2CUpdate ==
    /\ pc = "a2c_update"
    /\ params' = params + 1
    /\ epoch_log' = <<[j \in DOMAIN batch |-> batch[j].idx]>>
    /\ pc' = "log"
    /\ UNCHANGED <<variant, args, lr, infos, emitted, update, i, epoch, mb, global_step, key, env_t,
                   state, next_state, rollout_buffer, last_value, advantages,
                   td_target, batch, batch_indexes, ratios, pushed, push_count>>
    /\ GaeIdle

\* the metrics are written and the outer loop goes on or ends; the model
\* follows at most MaxUpdates iterations
EndIteration ==
    /\ pc = "log"
    /\ update' = update + 1
    /\ \/ /\ update + 1 < args.num_updates
          /\ update + 1 < MaxUpdates
          /\ pc' = "begin"
          /\ i' = 0
       \/ /\ update + 1 >= args.num_updates
          /\ pc' = "done"
          /\ UNCHANGED i
    /\ UNCHANGED <<variant, args, lr, infos, emitted, epoch, mb, global_step, key, env_t, state,
                   next_state, params, rollout_buffer, last_value, advantages,
                   td_target, batch, batch_indexes, ratios, pushed, push_count,
                   epoch_log>>
    /\ GaeIdle

Next ==
    \/ BeginUpdate
    \/ \E ended \in SUBSET Lanes(args.num_envs) : RolloutStep(ended)
    \/ GetTrajectory
    \/ CalculateAdvantages
    \/ NormalizeBatch
    \/ FlattenBatch
    \/ ShuffleBatch
    \/ TrainStepFails
    \/ MinibatchUpdate
    \/ EndEpoch
    \/ A2CUpdate
    \/ EndIteration

Spec == Init /\ [][Next]_vars

\* the estimation phase on its own: the training-loop variables stay parked
GaeStart == GaeInit /\ LoopParked /\ UpdateParked /\ OffParked

GaeNext ==
    \/ \E v \in Variants : EstimateAdvantages(v) /\ UNCHANGED <<lvars, uvars, ovars>>
    \/ NormalizeAdvantages /\ UNCHANGED <<lvars, uvars, ovars>>

SpecGAE == GaeStart /\ [][GaeNext]_vars

\* one gradient step on its own
UpdateStart == UpdateInit /\ LoopParked /\ GaeParked /\ OffParked

UpdateNext ==
    \/ MainMinibatchStep /\ UNCHANGED <<lvars, gvars, ovars>>
    \/ PpoTrainStep /\ UNCHANGED <<lvars, gvars, ovars>>
    \/ A2CTrainStep /\ UNCHANGED <<lvars, gvars, ovars>>

SpecUpdate == UpdateStart /\ [][UpdateNext]_vars

\* the off-policy loops on their own
OffStart == OffInit /\ LoopParked /\ GaeParked /\ UpdateParked

OffNext ==
    \/ \E done \in {0, 1} : CollectStep(done) /\ UNCHANGED <<lvars, gvars, uvars>>
    \/ SkipTraining /\ UNCHANGED <<lvars, gvars, uvars>>
    \/ SampleFails /\ UNCHANGED <<lvars, gvars, uvars>>
    \/ \E d \in Draws(o_script, o_replay) :
          TrainStep(d) /\ UNCHANGED <<lvars, gvars, uvars>>

SpecReplay == OffStart /\ [][OffNext]_vars

(***************************************************************************)
(* Properties of the training loop (specification Spec).                   *)
(***************************************************************************)
IsPPO == variant \in {"ppo_flax", "ppo_torch"}

\* the minibatch loop of an epoch has finished
EpochComplete == IsPPO /\ pc = "minibatch" /\ MinibatchLoopDone

\* the places (minibatch, position) of the epoch where batch index k was used
Occurrences(k) ==
    {pl \in {<<m, j>> : m \in 1 .. Len(epoch_log), j \in 0 .. (MaxBatchSize + 1)} :
        /\ pl[2] \in DOMAIN epoch_log[pl[1]]
        /\ epoch_log[pl[1]][pl[2]] = k}

\* C3: when the minibatch loop of a PPO epoch has finished, every index of
\* [0, batch_size) has been used by exactly one minibatch of the epoch, at
\* exactly one position: no duplicate and no omission.
C3_MinibatchesPartitionBatch ==
    EpochComplete =>
        \A k \in 0 .. (args.batch_size - 1) : Cardinality(Occurrences(k)) = 1

\* a finished epoch of two minibatches of two entries whose order is not the
\* flattened order, in the second epoch
C3_Witness ==
    /\ EpochComplete
    /\ args.batch_size = 4 /\ args.minibatch_size = 2
    /\ Len(epoch_log) = 2
    /\ epoch = 1
    /\ epoch_log[1][0] = 3 /\ epoch_log[2][1] = 0

\* C4: after the first minibatch of the first epoch of an iteration, the
\* importance ratio of every entry of that minibatch is 1: the parameters
\* that evaluate the minibatch are the ones that recorded old_log_prob.
C4_FirstRatioIsOne ==
    (IsPPO /\ pc = "minibatch" /\ epoch = 0 /\ mb = 1) =>
        \A j \in DOMAIN ratios : ratios[j] = One

\* the first minibatch of the second iteration, after the parameters moved
C4_Witness ==
    /\ IsPPO /\ pc = "minibatch" /\ epoch = 0 /\ mb = 1
    /\ update = 1 /\ params > 1
    /\ DOMAIN ratios # {}
    /\ \A j \in DOMAIN ratios : ratios[j] = One

\* row t of the buffer holds transition tr in every field
RowHolds(t, tr) ==
    /\ rollout_buffer.states[t] = tr.state
    /\ rollout_buffer.actions[t] = tr.action
    /\ rollout_buffer.rewards[t] = tr.reward
    /\ rollout_buffer.flags[t] = tr.flag
    /\ rollout_buffer.values[t] = tr.value
    /\ variant = "ppo_flax" => rollout_buffer.log_probs[t] = tr.log_prob

\* C5: after any number of pushes the cursor is within 0 .. num_steps - 1 and
\* equals the number of pushes modulo num_steps, and the latest push wrote
\* every field of its transition at the row the cursor was at.
C5_PushWritesAtCursorAndWraps ==
    IsFlax =>
        /\ rollout_buffer.step \in 0 .. (args.num_steps - 1)
        /\ rollout_buffer.step = push_count % args.num_steps
        /\ pushed # <<>> =>
              RowHolds((push_count - 1) % args.num_steps, pushed[Len(pushed)])

\* the (num_steps + 1)-th push has overwritten row 0 of a buffer of several
\* rows with the transition of environment step num_steps
C5_Witness ==
    /\ IsFlax
    /\ args.num_steps > 1
    /\ push_count = args.num_steps + 1
    /\ rollout_buffer.step = 1
    /\ rollout_buffer.rewards[0] = EnvReward(args.num_steps, args.num_envs)

\* C6: at every get() exactly num_steps pushes have happened since the
\* previous get() and the cursor is 0.
C6_GetAfterFullHorizon ==
    (IsFlax /\ AtGet) =>
        /\ Len(pushed) = args.num_steps
        /\ rollout_buffer.step = 0

\* the get() of the second iteration, on a horizon of several steps
C6_Witness ==
    /\ IsFlax /\ AtGet
    /\ update = 1
    /\ args.num_steps > 1
    /\ Len(pushed) = args.num_steps
    /\ push_count = 2 * args.num_steps

\* the observation the policy sees at environment step k
StateAt(k) ==
    IF k = 0 THEN [n \in Lanes(args.num_envs) |-> Obs(0, n)]
    ELSE EnvNextState(k - 1, args.num_envs)

\* row t holds, in every field, the transition of environment step k
RowIsStep(t, k) ==
    /\ rollout_buffer.states[t] = StateAt(k)
    /\ rollout_buffer.rewards[t] = EnvReward(k, args.num_envs)
    /\ rollout_buffer.flags[t] = NotDone(EnvDone(k, args.num_envs))
    /\ \A n \in Lanes(args.num_envs) :
          /\ rollout_buffer.values[t][n] = Value(params, StateAt(k)[n])
          /\ rollout_buffer.actions[t][n][1] = "act"
          /\ rollout_buffer.actions[t][n][3] = n
          /\ variant = "ppo_flax" =>
                rollout_buffer.log_probs[t][n] =
                    LogProb(params, StateAt(k)[n], rollout_buffer.actions[t][n])

\* C7: at every get(), row t holds in every field the t-th transition pushed
\* in the current iteration, which is the transition of environment step
\* update * num_steps + t; the actions of the rows are drawn in time order.
C7_RowsAreCurrentIterationInOrder ==
    (IsFlax /\ AtGet) =>
        /\ \A t \in Steps(args.num_steps) :
              /\ RowHolds(t, pushed[t + 1])
              /\ RowIsStep(t, update * args.num_steps + t)
        /\ \A t, u \in Steps(args.num_steps) :
              t < u => rollout_buffer.actions[t][0][2] < rollout_buffer.actions[u][0][2]

\* the get() of the second iteration: every row has been overwritten
C7_Witness ==
    /\ IsFlax /\ AtGet
    /\ update = 1
    /\ args.num_steps > 1
    /\ args.num_envs > 1
    /\ rollout_buffer.states[0] = StateAt(args.num_steps)

\* environment transitions collected so far: every envs.step moves all lanes
TransitionsCollected == env_t * args.num_envs

\* C11: the loop ends after exactly total_timesteps \div (num_steps * num_envs)
\* iterations, and the transitions collected never exceed total_timesteps.
\* (ppo_continuous derives num_updates from total_timesteps \div num_steps.)
C11_UpdateCountFromBatchSize ==
    /\ pc = "done" =>
          update = args.total_timesteps \div (args.num_steps * args.num_envs)
    /\ TransitionsCollected <= args.total_timesteps

\* C12: after k rollout steps in total the global step counter is
\* k * num_envs.  (ppo_continuous adds 1 per rollout step.)
C12_GlobalStepCountsLanes == global_step = env_t * args.num_envs

\* C13: during the rollout of update index u the learning rate of
\* ppo_continuous is base_lr * (1 - u / num_updates), never above base_lr.
\* (The code computes 1 - (u - 1) / num_updates with u counted from 0.)
C13_LinearDecayFromBaseRate ==
    (variant = "ppo_torch" /\ pc = "rollout") =>
        /\ lr = RSub(One, Rat(update, args.num_updates))
        /\ ~RLess(One, lr)

\* the batch size is not a multiple of the minibatch count
NonDivisible ==
    args.num_minibatches > 0 /\ args.batch_size % args.num_minibatches # 0

\* C15: under a configuration whose batch size is not divisible by the
\* minibatch count no environment step and no parameter update happens.
\* (No script validates its configuration: the rollout runs first.)
C15_InvalidConfigRejectedBeforeRollout ==
    (IsPPO /\ NonDivisible) => (env_t = 0 /\ params = 0)

\* the statements of one iteration, in the order the scripts run them
PhaseEdges ==
    {<<"begin", "rollout">>, <<"rollout", "advantages">>,
     <<"advantages", "normalize">>, <<"normalize", "flatten">>,
     <<"flatten", "epochs">>, <<"flatten", "a2c_update">>,
     <<"epochs", "minibatch">>, <<"minibatch", "epochs">>,
     <<"minibatch", "log">>, <<"minibatch", "error">>,
     <<"a2c_update", "log">>, <<"log", "begin">>, <<"log", "done">>}

UpdatePhases ==
    {"advantages", "normalize", "flatten", "epochs", "minibatch", "a2c_update",
     "log", "error"}

\* one step of the loop respects the order of the phases
PhaseStep ==
    /\ pc' # pc => <<pc, pc'>> \in PhaseEdges
    /\ env_t' # env_t => (pc = "rollout" /\ pc' = "rollout")
    /\ params' # params => pc \in {"minibatch", "a2c_update"}
    /\ (pc = "rollout" /\ pc' = "advantages") =>
          /\ i = args.num_steps
          /\ last_value' = policy_critic(params, EnvNextState(env_t - 1, args.num_envs))

\* the environment steps taken when the loop is at a given statement
PhaseCounts ==
    /\ pc = "rollout" => env_t = update * args.num_steps + i
    /\ pc \in UpdatePhases => env_t = (update + 1) * args.num_steps

\* C18: every iteration runs rollout (num_steps environment steps), advantage
\* computation (bootstrap from the observation the last environment step
\* returned), normalize/flatten, update epochs, in this order; environment
\* steps happen only in the rollout and parameter updates only in the update
\* phase, and the next rollout starts only after the last update.
C18_PhasesInOrder == []PhaseCounts /\ [][PhaseStep]_vars

\* the end of the second iteration of a PPO run of two epochs
C18_Witness ==
    /\ IsPPO /\ pc = "log"
    /\ update = 1 /\ epoch = 2
    /\ args.num_steps > 1
    /\ env_t = 2 * args.num_steps

\* C19: every finished epoch made exactly num_minibatches gradient updates,
\* each over exactly minibatch_size entries, and an iteration makes
\* num_optims * num_minibatches parameter updates in num_optims epochs.
\* (ppo_continuous walks range(0, batch_size, minibatch_size): when
\* batch_size is not a multiple of num_minibatches it makes more updates,
\* the last one possibly over fewer entries.)
C19_EpochsTimesMinibatchesUpdates ==
    /\ EpochComplete =>
          /\ Len(epoch_log) = args.num_minibatches
          /\ \A m \in 1 .. Len(epoch_log) :
                DOMAIN epoch_log[m] = 0 .. (args.minibatch_size - 1)
    /\ (IsPPO /\ pc = "log") =>
          /\ epoch = args.num_optims
          /\ params = (update + 1) * args.num_optims * args.num_minibatches

\* C20: in A2C exactly one parameter update has been applied per finished
\* iteration, each over the whole flattened batch in its flattened order,
\* with no permutation and no importance ratio.
C20_A2COneStepPerIteration ==
    variant = "a2c_flax" =>
        /\ params = IF pc = "log" THEN update + 1 ELSE update
        /\ pc = "log" =>
              epoch_log = <<[j \in 0 .. (args.batch_size - 1) |-> j]>>
        /\ batch_indexes = <<>> /\ ratios = <<>>

\* the end of the second A2C iteration on a batch of several entries
C20_Witness ==
    /\ variant = "a2c_flax" /\ pc = "log"
    /\ update = 1 /\ params = 2
    /\ args.num_steps > 1 /\ args.num_envs > 1
    /\ Len(epoch_log) = 1

\* the parameters a critic value or a log-probability was computed with
ParamsOf(term) == term[2]

\* the values and log-probabilities stored by the rollout so far, and the
\* bootstrap value once it is taken, are all computed with the current
\* parameters
ParamsFixedWhileCollecting ==
    /\ pc = "rollout" =>
          \A t \in 0 .. (i - 1), n \in Lanes(args.num_envs) :
              /\ ParamsOf(rollout_buffer.values[t][n]) = params
              /\ variant # "a2c_flax" =>
                    ParamsOf(rollout_buffer.log_probs[t][n]) = params
    /\ pc = "advantages" =>
          \A t \in Steps(args.num_steps), n \in Lanes(args.num_envs) :
              /\ rollout_buffer.values[t][n] =
                    Value(params, rollout_buffer.states[t][n])
              /\ last_value[n] = Value(params, next_state[n])

\* a step that changes the parameters is a step of the update, and issues no
\* predict, critic or environment call
ParamsStep ==
    params' # params =>
        /\ pc \in {"minibatch", "a2c_update"}
        /\ env_t' = env_t /\ state' = state
        /\ last_value' = last_value
        /\ rollout_buffer' = rollout_buffer

\* C21: the parameters change only inside update steps: every predict call of
\* a rollout and the bootstrap critic call after it see the same parameters,
\* and an update step makes no predict, critic or environment call.
C21_ParamsChangeOnlyInUpdate ==
    []ParamsFixedWhileCollecting /\ [][ParamsStep]_vars

\* the bootstrap of the second iteration, taken with parameters that have
\* moved since the first
C21_Witness ==
    /\ pc = "advantages"
    /\ update = 1 /\ params > 0
    /\ args.num_steps > 1
    /\ ParamsOf(last_value[0]) = params
    /\ ParamsOf(rollout_buffer.values[0][0]) = params

\* the rollout is over: its last step has been made
RolloutOver == pc # "rollout" \/ i = args.num_steps

\* C22: from the end of a rollout to the first push of the next one no
\* statement changes the stored states, actions, rewards, flags, log_probs,
\* values or the cursor.
C22_StoreReadOnlyAfterRollout ==
    [][RolloutOver => rollout_buffer' = rollout_buffer]_vars

\* a minibatch update of the second iteration has been made and the store
\* still holds the rollout of that iteration
C22_Witness ==
    /\ IsPPO /\ pc = "minibatch" /\ mb > 0
    /\ update = 1
    /\ args.num_steps > 1
    /\ rollout_buffer.rewards[0] = EnvReward(args.num_steps, args.num_envs)

\* the number of entries of emitted with a given name and lane
Written(name, n) ==
    Cardinality({k \in 1 .. Len(emitted) :
                    emitted[k].name = name /\ emitted[k].lane = n})

\* C23: envs.reset is never called again: the observation the loop holds
\* after k environment steps is the one step k - 1 returned, also across
\* iterations; a rollout step writes one return and one length scalar for
\* each lane whose episode ended at that step and none for any other lane.
C23_NoResetAndOneMetricPerEndedLane ==
    variant # "none" =>
        /\ state = (IF env_t = 0 THEN [n \in Lanes(args.num_envs) |-> Obs(0, n)]
                    ELSE EnvNextState(env_t - 1, args.num_envs))
        /\ (pc = "rollout" /\ i = 0) => env_t = update * args.num_steps
        /\ \A n \in Lanes(args.num_envs) :
              /\ Written("rollout/episodic_return", n) = (IF n \in infos THEN 1 ELSE 0)
              /\ Written("rollout/episodic_length", n) = (IF n \in infos THEN 1 ELSE 0)
        /\ Len(emitted) = 2 * Cardinality(infos)

\* the first step of the second iteration, at which lane 1 alone ended
C23_Witness ==
    /\ pc = "rollout" /\ update = 1 /\ i = 1
    /\ args.num_envs > 1
    /\ infos = {1}
    /\ Len(emitted) = 2
    /\ state = EnvNextState(args.num_steps, args.num_envs)

\* C25: in flax PPO, after any number of epochs, every entry of the batch
\* holds the state, action, old log-probability, advantage and td_target of
\* one and the same (time step, lane) cell, and the entries are a permutation
\* of the num_steps * num_envs cells of the iteration.
C25_PermutedBatchStaysAligned ==
    (variant = "ppo_flax" /\ pc \in {"epochs", "minibatch", "log"}) =>
        /\ DOMAIN batch = 0 .. (args.batch_size - 1)
        /\ \A j \in DOMAIN batch : batch[j] = FlatBatch[batch[j].idx]
        /\ \A j, k \in DOMAIN batch : j # k => batch[j].idx # batch[k].idx

\* two epochs done: the batch has been permuted twice and is not in its
\* flattened order
C25_Witness ==
    /\ variant = "ppo_flax" /\ pc = "log"
    /\ epoch = 2
    /\ args.batch_size = 4
    /\ batch[0].idx = 2 /\ batch[1].idx = 0

(***************************************************************************)
(* Properties of one gradient step (specification SpecUpdate).             *)
(***************************************************************************)
\* the fraction of the entries whose |ratio - 1| exceeds eps
ClippedFraction(rs, eps) ==
    Rat(Cardinality({j \in DOMAIN rs : RLess(eps, RAbs(RSub(rs[j], One)))}),
        Cardinality(DOMAIN rs))

\* C14: the clip fraction ppo_continuous records for a minibatch is the
\* fraction of its entries whose |ratio - 1| exceeds the configured eps_clip,
\* hence 0 when eps_clip is so large that no ratio is clipped.
\* (The code compares with the literal 0.2, whatever eps_clip is.)
C14_ClipFractionUsesConfiguredEpsilon ==
    (u_variant = "ppo_torch" /\ u_pc = "updated") =>
        u_clipfracs = <<ClippedFraction(u_ratios, u_eps_clip)>>

\* a non-finite value entered the step: in the advantages or in the loss
NonFiniteStep ==
    \/ \E j \in DOMAIN u_advantages : ~IsFinite(u_advantages[j])
    \/ ~IsFinite(u_loss)

\* C16: a step whose advantages or loss hold a non-finite value ends in an
\* error and leaves the parameters as they were.
\* (No script tests the loss: the optimizer step is applied every time.)
C16_NonFiniteStepIsFatal ==
    (u_pc \notin {"ready", "parked"} /\ NonFiniteStep) =>
        (u_pc = "error" /\ u_params = 0)

\* C27: in ppo_continuous every trainable parameter of the Agent (the actor
\* network, the critic network and actor_logstd) is in the parameter set
\* the optimizer was created with, so an optimizer step updates every
\* parameter whose gradient is norm-clipped.
C27_OptimizerHoldsEveryParameter ==
    u_variant = "ppo_torch" =>
        /\ u_agent.parameters =
              {"actor_neural_net", "critic_neural_net", "actor_logstd"}
        /\ u_agent.parameters \subseteq u_agent.optimizer
        /\ u_pc = "updated" =>
              \A q \in u_agent.clipped : u_agent.version[q] = 1

(***************************************************************************)
(* Properties of the off-policy loops (specification SpecReplay).          *)
(***************************************************************************)
\* C26: in the array ReplayBuffer every entry sample() returns was read at
\* an index i with i + 1 a written slot of the array, and its next_state
\* states[i + 1] is the observation the environment returned from the step
\* stored at slot i, also after the cursor has wrapped.
C26_SampledNextStateIsSuccessor ==
    (o_script = "td3_array" /\ o_batch # <<>>) =>
        \A j \in DOMAIN o_batch :
            /\ o_batch[j].idx + 1 < o_replay.max_size
            /\ o_batch[j].idx + 1 < o_replay.size
            /\ \E k \in 0 .. o_args.total_timesteps :
                  /\ o_batch[j].state = EnvObservation(k)
                  /\ o_batch[j].next_state = EnvObservation(k + 1)

\* the transitions the buffer holds, and the least number sample() needs
Stored(script, self) ==
    IF script = "td3_array" THEN self.size ELSE Len(self.buffer)

Needed(script, self) == IF script = "td3_array" THEN 2 ELSE self.batch_size

\* C28: in every off-policy loop and for every learning_start, batch_size
\* and buffer_size, sample() is called only when the deque holds at least
\* batch_size transitions, the array at least 2: no sample call fails.
C28_SampleOnlyWhenItCanSucceed ==
    /\ o_pc # "failed"
    /\ (o_pc = "train" /\ TrainingDue(o_script, o_args, o_global_step)) =>
          Stored(o_script, o_replay) >= Needed(o_script, o_replay)

RECURSIVE Blends(_)
\* the number of soft updates a target network has had
Blends(term) == IF term[1] = "copy" THEN 0 ELSE 1 + Blends(term[3])

\* the steps before g at which the critics, and the actor, are due
CriticSteps(g) == {k \in 0 .. (g - 1) : k > o_args.learning_start}

ActorSteps(g) ==
    {k \in CriticSteps(g) : k % o_args.policy_frequency = 0}

\* C29: in both TD3 loops a step with global_step <= learning_start writes
\* no network; a later step makes one optimizer step of the critics and,
\* only when global_step is a multiple of policy_frequency, one of the
\* actor followed at once by the blend of the three targets, which are
\* written at no other time; the action is uniform exactly at the steps
\* with global_step < learning_start.
C29_TD3UpdateSchedule ==
    (o_script \in TD3Scripts /\ o_pc \in {"act", "done"}) =>
        /\ Len(o_trace) = o_global_step
        /\ \A g \in 0 .. (o_global_step - 1) :
              /\ (o_trace[g + 1].kind = "uniform") <=> (g < o_args.learning_start)
              /\ o_trace[g + 1].writes =
                    (IF g <= o_args.learning_start THEN <<>>
                     ELSE IF g % o_args.policy_frequency = 0
                     THEN <<"optimizer_critic", "optimizer_actor",
                            "target_actor", "target_critic1", "target_critic2">>
                     ELSE <<"optimizer_critic">>)
        /\ o_nets.critic1 = Cardinality(CriticSteps(o_global_step))
        /\ o_nets.critic2 = Cardinality(CriticSteps(o_global_step))
        /\ o_nets.actor = Cardinality(ActorSteps(o_global_step))
        /\ \A tn \in {"target_actor", "target_critic1", "target_critic2"} :
              Blends(o_nets[tn]) = Cardinality(ActorSteps(o_global_step))
        /\ o_nets.actor > 0 =>
              /\ o_nets.target_actor =
                    soft_update(o_nets.actor, o_nets.target_actor[3])
              /\ o_nets.target_critic1[1] = "blend"
              /\ o_nets.target_critic2[1] = "blend"

\* four steps with learning_start 1 and policy_frequency 2: step 2 updated
\* the critics, the actor and the targets, step 3 the critics alone
C29_Witness ==
    /\ o_script \in TD3Scripts /\ o_pc = "act"
    /\ o_global_step = 4
    /\ o_args.learning_start = 1 /\ o_args.policy_frequency = 2
    /\ o_trace[1].kind = "uniform" /\ o_trace[2].kind = "policy"
    /\ Len(o_trace[3].writes) = 5
    /\ o_trace[4].writes = <<"optimizer_critic">>
    /\ o_nets.actor = 1 /\ o_nets.critic1 = 2
    /\ o_nets.target_critic1 = soft_update(1, <<"copy", 0>>)

\* C30: in the array ReplayBuffer, after any sequence of pushes,
\* 0 <= idx < max_size, 0 <= size <= max_size, idx is the number of pushes
\* modulo max_size and size the smaller of the number of pushes and
\* max_size; batch_size and max_size stay as constructed.
C30_CursorAndSizeFollowPushes ==
    o_script = "td3_array" =>
        /\ 0 <= o_replay.idx /\ o_replay.idx < o_replay.max_size
        /\ 0 <= o_replay.size /\ o_replay.size <= o_replay.max_size
        /\ o_replay.idx = o_pushes % o_replay.max_size
        /\ o_replay.size = Minimum(o_pushes, o_replay.max_size)
        /\ o_replay.batch_size = o_args.batch_size
        /\ o_replay.max_size = o_args.buffer_size

\* five pushes into an array of three: the cursor has wrapped to slot 2
C30_Witness ==
    /\ o_script = "td3_array"
    /\ o_replay.max_size = 3
    /\ o_pushes = 5
    /\ o_replay.idx = 2 /\ o_replay.size = 3
    /\ o_replay.states[1] = EnvObservation(4)
    /\ o_replay.states[2] = EnvObservation(2)

====
